---------------------------- MODULE Spec2Model ----------------------------
(***************************************************************************)
(* Procedural texture generators of _claude_scripts/textures.              *)
(*                                                                         *)
(* Modelled here: the two seamless noise generators                        *)
(*   dark_sky/generate.py   toroidal_noise, generate_dark_sky              *)
(*   snow_dirt/generate.py  generate_tileable_noise, main                  *)
(* and the 64x64 item icons                                                *)
(*   trail_mix, baseball_bat, binoculars, hazmat_suit, coachs_whistle      *)
(*                                                                         *)
(* Floating point numbers are modelled as exact rationals [n, d] in lowest *)
(* terms (d > 0); d = 0 encodes the non-finite values of IEEE arithmetic   *)
(* (n = 0: NaN, n = 1: +inf, n = -1: -inf).  The external noise primitives *)
(* (noise.pnoise2, opensimplex.noise4) are deterministic functions of      *)
(* their arguments with values in [-1, 1].                                 *)
(***************************************************************************)
EXTENDS Integers, Sequences, FiniteSets, TLC

VARIABLES
    script,     \* which entry point runs: "api" (direct calls), "dark_sky"
    perm,       \* the permutation table of the pnoise2 library (fixed per run)
    tn,         \* activation record of toroidal_noise
    gt,         \* activation record of generate_tileable_noise
    sky,        \* position of generate_dark_sky
    fields,     \* base_noise, detail_noise, turbulence, combined
    img_array,  \* the RGB pixels painted so far
    nan_cast,   \* what NaN -> uint8 gives on this build, once it was seen
    first,      \* the first completed direct call: [set, fn, args, outcome]
    calls,      \* number of calls started by the "api" driver
    snow,       \* position and arrays of snow_dirt's main
    canvas,     \* the RGBA pixels of the icon being generated
    icon        \* position of the icon script's generate function

\* The state of the icon scripts.
icons == <<canvas, icon>>

\* The state of the scripts other than dark_sky and the direct calls.
other_scripts == <<snow, icons>>

vars == <<script, perm, tn, gt, sky, fields, img_array, nan_cast,
          first, calls, other_scripts>>

---------------------------------------------------------------------------
(* Bounds of the model *)

\* Edge length of the texture (SIZE = 128 in both scripts), scaled down.
SIZE == 2
\* Permutation tables / generator seeds considered: 0 .. MaxSeed.
MaxSeed == 1
\* Largest octave count a direct call passes.
MaxOctaves == 3
\* Number of direct calls of one run of the "api" driver.
MaxCalls == 3
\* The noise primitives return multiples of 1/NoiseRes in [-1, 1].
NoiseRes == 2

---------------------------------------------------------------------------
(* Exact arithmetic on rationals *)

Abs(a) == IF a < 0 THEN -a ELSE a

Sgn(a) == IF a < 0 THEN -1 ELSE IF a > 0 THEN 1 ELSE 0

RECURSIVE GCD(_, _)
GCD(a, b) == IF b = 0 THEN a ELSE GCD(b, a % b)

\* The rational n/d (d # 0) in lowest terms with a positive denominator.
Rat(n, d) ==
    LET g == GCD(Abs(n), Abs(d))
        s == IF d < 0 THEN -1 ELSE 1
    IN  [n |-> (s * n) \div g, d |-> (s * d) \div g]

RInt(k) == [n |-> k, d |-> 1]

NaN == [n |-> 0, d |-> 0]

IsFinite(a) == a.d # 0

\* a + b, a - b, a * b of IEEE arithmetic (inf - inf = NaN, inf * 0 = NaN).
RNeg(a) == [n |-> -a.n, d |-> a.d]

RAdd(a, b) ==
    IF IsFinite(a) /\ IsFinite(b) THEN
        LET g == GCD(a.d, b.d)
        IN  Rat(a.n * (b.d \div g) + b.n * (a.d \div g), (a.d \div g) * b.d)
    ELSE IF IsFinite(b) THEN a
    ELSE IF IsFinite(a) THEN b
    ELSE IF a = b THEN a ELSE NaN

RSub(a, b) == RAdd(a, RNeg(b))

RMul(a, b) ==
    IF IsFinite(a) /\ IsFinite(b) THEN
        LET g1 == GCD(Abs(a.n), b.d)
            g2 == GCD(Abs(b.n), a.d)
        IN  Rat((a.n \div g1) * (b.n \div g2), (a.d \div g2) * (b.d \div g1))
    ELSE [n |-> Sgn(a.n) * Sgn(b.n), d |-> 0]

\* numpy division: x / 0 is +-inf, 0 / 0 is NaN (a warning, no exception).
NpDiv(a, b) ==
    IF ~IsFinite(a) \/ ~IsFinite(b) THEN
        IF IsFinite(b) /\ b.n # 0 THEN [n |-> Sgn(a.n) * Sgn(b.n), d |-> 0]
        ELSE IF IsFinite(a) /\ b.n # 0 THEN RInt(0)
        ELSE NaN
    ELSE IF b.n = 0 THEN [n |-> Sgn(a.n), d |-> 0]
    ELSE RMul(a, Rat(b.d, b.n))

\* Comparisons (false when an operand is NaN).
RLe(a, b) ==
    /\ a # NaN /\ b # NaN
    /\ LET g == IF IsFinite(a) /\ IsFinite(b) THEN GCD(a.d, b.d) ELSE 1
       IN  a.n * (b.d \div g) <= b.n * (a.d \div g)

RLt(a, b) ==
    /\ a # NaN /\ b # NaN
    /\ LET g == IF IsFinite(a) /\ IsFinite(b) THEN GCD(a.d, b.d) ELSE 1
       IN  a.n * (b.d \div g) < b.n * (a.d \div g)

\* floor(a) and int(a) (truncation toward zero) of a finite value.
RFloor(a) == a.n \div a.d
RTrunc(a) == IF a.n >= 0 THEN a.n \div a.d ELSE -((-a.n) \div a.d)

---------------------------------------------------------------------------
(* np.pi, np.cos, np.sin *)

\* np.pi as a rational.
NpPi == Rat(22, 7)

\* sin of an angle given in turns (1 turn = 2 pi): argument reduction to
\* [0, 1), then Bhaskara's rational approximation on each half turn,
\*   sin(2 pi f) = 32 u / (5 - 8 u),  u = f (1 - 2 f),  0 <= f <= 1/2.
HalfWave(f) ==
    LET u == RMul(f, RSub(RInt(1), RMul(RInt(2), f)))
    IN  NpDiv(RMul(RInt(32), u), RSub(RInt(5), RMul(RInt(8), u)))

SinTurn(t) ==
    LET f == RSub(t, RInt(RFloor(t)))
    IN  IF RLe(f, Rat(1, 2)) THEN HalfWave(f)
        ELSE RNeg(HalfWave(RSub(f, Rat(1, 2))))

NpSin(angle) == SinTurn(NpDiv(angle, RMul(RInt(2), NpPi)))

NpCos(angle) == SinTurn(RAdd(NpDiv(angle, RMul(RInt(2), NpPi)), Rat(1, 4)))

---------------------------------------------------------------------------
(* The external noise primitives *)

\* A deterministic value in {-NoiseRes .. NoiseRes} / NoiseRes for key k
\* under table/seed s.  Table 0 is the flat primitive.
NoiseValue(s, k) ==
    Rat(((s * (k % 1009) + NoiseRes) % (2 * NoiseRes + 1)) - NoiseRes, NoiseRes)

\* noise.pnoise2(x, y, octaves=1, base=b): one octave of 2D gradient noise.
pnoise2(px, py, base) ==
    NoiseValue(perm, 7 * px.n + 3 * px.d + 5 * py.n + 11 * py.d + 13 * base)

---------------------------------------------------------------------------
(* dark_sky: toroidal_noise(x, y, size, scale, octaves, persistence,       *)
(* lacunarity)                                                             *)

\* Mutant: the angles sweep half a turn over the texture (pi instead of
\* 2 pi).
TorusPointHalfTurn(x, y, size) ==
    LET nx      == Rat(x, size)
        ny      == Rat(y, size)
        angle_x == RMul(NpPi, nx)
        angle_y == RMul(NpPi, ny)
        radius  == NpDiv(RInt(size), RMul(RInt(2), NpPi))
    IN  [dx |-> RMul(radius, NpCos(angle_x)),
         dy |-> RMul(radius, NpSin(angle_x)),
         dz |-> RMul(radius, NpCos(angle_y)),
         dw |-> RMul(radius, NpSin(angle_y))]

\* Lines 30-45: the point on the torus for cell (x, y); size # 0.
TorusPoint(x, y, size) ==
    LET nx      == Rat(x, size)
        ny      == Rat(y, size)
        angle_x == RMul(RMul(RInt(2), NpPi), nx)
        angle_y == RMul(RMul(RInt(2), NpPi), ny)
        radius  == NpDiv(RInt(size), RMul(RInt(2), NpPi))
    IN  [dx |-> RMul(radius, NpCos(angle_x)),
         dy |-> RMul(radius, NpSin(angle_x)),
         dz |-> RMul(radius, NpCos(angle_y)),
         dw |-> RMul(radius, NpSin(angle_y))]

\* Lines 56-63: the arguments handed to pnoise2 at the given frequency.
SampleInputs(p, frequency, size) ==
    [px   |-> NpDiv(RMul(p.dx, frequency), RInt(size)),
     py   |-> NpDiv(RMul(p.dy, frequency), RInt(size)),
     base |-> RTrunc(RMul(p.dz, RInt(1000))) % 256]

Sample(p, frequency, size) ==
    LET a == SampleInputs(p, frequency, size)
    IN  pnoise2(a.px, a.py, a.base)

\* The record of the first completed direct call, kept to compare later
\* calls with it.
Recorded(fn, args, outcome) ==
    IF script = "api" /\ ~first.set
    THEN [set |-> TRUE, fn |-> fn, args |-> args, outcome |-> outcome]
    ELSE first

\* The activation record before the first call.
TNIdle ==
    [pc |-> "idle", args |-> <<>>, p |-> <<>>, value |-> RInt(0),
     amplitude |-> RInt(1), frequency |-> RInt(0), max_value |-> RInt(0),
     i |-> 0, samples |-> 0, result |-> NaN, err |-> "none"]

\* Mutant: the accumulators live outside the function and keep what the
\* previous call left in them.
TN_EnterStale(a) ==
    IF a.size = 0 THEN
        tn' = [tn EXCEPT !.pc = "raised", !.args = a, !.samples = 0,
                         !.i = 0, !.result = NaN,
                         !.err = "ZeroDivisionError"]
    ELSE
        tn' = [pc |-> "loop", args |-> a, p |-> TorusPoint(a.x, a.y, a.size),
               value |-> tn.value, amplitude |-> RInt(1),
               frequency |-> a.scale, max_value |-> tn.max_value,
               i |-> 0, samples |-> 0, result |-> NaN, err |-> "none"]

\* Lines 30-52: entry.  x / size raises ZeroDivisionError for size = 0.
TN_Enter(a) ==
    IF a.size = 0 THEN
        tn' = [tn EXCEPT !.pc = "raised", !.args = a, !.samples = 0,
                         !.i = 0, !.result = NaN,
                         !.err = "ZeroDivisionError"]
    ELSE
        tn' = [pc |-> "loop", args |-> a, p |-> TorusPoint(a.x, a.y, a.size),
               value |-> RInt(0), amplitude |-> RInt(1),
               frequency |-> a.scale, max_value |-> RInt(0),
               i |-> 0, samples |-> 0, result |-> NaN, err |-> "none"]

\* Mutant: amplitude and frequency are advanced before the sample is taken
\* and weighted.
TN_OctaveLate ==
    /\ tn.pc = "loop"
    /\ tn.i < tn.args.octaves
    /\ LET amplitude == RMul(tn.amplitude, tn.args.persistence)
           frequency == RMul(tn.frequency, tn.args.lacunarity)
           sample    == Sample(tn.p, frequency, tn.args.size)
       IN  tn' = [tn EXCEPT
                    !.value     = RAdd(tn.value, RMul(sample, amplitude)),
                    !.max_value = RAdd(tn.max_value, amplitude),
                    !.amplitude = amplitude,
                    !.frequency = frequency,
                    !.i         = tn.i + 1,
                    !.samples   = tn.samples + 1]
    /\ UNCHANGED <<script, perm, gt, sky, fields, img_array, nan_cast,
                   first, calls>>
    /\ UNCHANGED other_scripts

\* Lines 54-69: one iteration of `for _ in range(octaves)`.
TN_Octave ==
    /\ tn.pc = "loop"
    /\ tn.i < tn.args.octaves
    /\ LET sample == Sample(tn.p, tn.frequency, tn.args.size)
       IN  tn' = [tn EXCEPT
                    !.value     = RAdd(tn.value, RMul(sample, tn.amplitude)),
                    !.max_value = RAdd(tn.max_value, tn.amplitude),
                    !.amplitude = RMul(tn.amplitude, tn.args.persistence),
                    !.frequency = RMul(tn.frequency, tn.args.lacunarity),
                    !.i         = tn.i + 1,
                    !.samples   = tn.samples + 1]
    /\ UNCHANGED <<script, perm, gt, sky, fields, img_array, nan_cast,
                 first, calls>>
    /\ UNCHANGED other_scripts

\* Mutant: the sum is divided by the number of octaves, not by the sum of
\* the weights.
TN_ReturnMean ==
    /\ tn.pc = "loop"
    /\ tn.i >= tn.args.octaves
    /\ LET outcome ==
              IF tn.i = 0 THEN <<"raised", "ZeroDivisionError">>
              ELSE <<"returned", NpDiv(tn.value, RInt(tn.i))>>
       IN  /\ tn' = IF outcome[1] = "raised"
                    THEN [tn EXCEPT !.pc = "raised", !.err = outcome[2]]
                    ELSE [tn EXCEPT !.pc = "done", !.result = outcome[2]]
           /\ first' = Recorded("toroidal_noise", tn.args, outcome)
    /\ UNCHANGED <<script, perm, gt, sky, fields, img_array, nan_cast,
                   calls>>
    /\ UNCHANGED other_scripts

\* Line 72: `return value / max_value` on Python floats: a zero divisor
\* raises ZeroDivisionError.
TN_Return ==
    /\ tn.pc = "loop"
    /\ tn.i >= tn.args.octaves
    /\ LET outcome ==
              IF tn.max_value.n = 0 THEN <<"raised", "ZeroDivisionError">>
              ELSE <<"returned", NpDiv(tn.value, tn.max_value)>>
       IN  /\ tn' = IF outcome[1] = "raised"
                    THEN [tn EXCEPT !.pc = "raised", !.err = outcome[2]]
                    ELSE [tn EXCEPT !.pc = "done", !.result = outcome[2]]
           /\ first' = Recorded("toroidal_noise", tn.args, outcome)
    /\ UNCHANGED <<script, perm, gt, sky, fields, img_array, nan_cast,
                   calls>>
    /\ UNCHANGED other_scripts

---------------------------------------------------------------------------
(* Cell loops *)

Cells == (0 .. SIZE - 1) \X (0 .. SIZE - 1)

\* Position of cell <<x, y>> in `for y in range(SIZE): for x in range(SIZE)`.
RowMajor(c) == c[2] * SIZE + c[1]

FirstOf(S) == CHOOSE c \in S : \A o \in S : RowMajor(c) <= RowMajor(o)

\* The cells a loop may visit next when `filled` are done: the next one in
\* row-major order, or, with the rows split between two workers by parity,
\* the next one of either worker.
Schedules == {"row_major", "workers"}

NextCells(filled, sched) ==
    LET left == Cells \ filled
        mine(w) == {c \in left : c[2] % 2 = w}
    IN  IF left = {} THEN {}
        ELSE IF sched = "row_major" THEN {FirstOf(left)}
        ELSE {FirstOf(mine(w)) : w \in {v \in 0 .. 1 : mine(v) # {}}}

Zeros == [c \in Cells |-> RInt(0)]

---------------------------------------------------------------------------
(* snow_dirt: generate_tileable_noise(noise_gen, scale, octaves)           *)

\* OpenSimplex(seed).noise4(a, b, c, d)
noise4(seed, a, b, c, d) ==
    NoiseValue(seed, 7 * a.n + 3 * a.d + 5 * b.n + 11 * b.d
                     + 13 * c.n + 17 * c.d + 19 * d.n + 23 * d.d)

RECURSIVE Pow2(_)
Pow2(k) == IF k <= 0 THEN 1 ELSE 2 * Pow2(k - 1)

\* Lines 33-46: the four arguments of noise4 for cell (x, y).
Noise4Inputs(x, y, scale, freq) ==
    LET nx == Rat(x, SIZE)
        ny == Rat(y, SIZE)
        s  == NpCos(RMul(RMul(nx, RInt(2)), NpPi))
        t  == NpSin(RMul(RMul(nx, RInt(2)), NpPi))
        u  == NpCos(RMul(RMul(ny, RInt(2)), NpPi))
        v  == NpSin(RMul(RMul(ny, RInt(2)), NpPi))
    IN  <<RMul(RMul(s, scale), freq), RMul(RMul(t, scale), freq),
          RMul(RMul(u, scale), freq), RMul(RMul(v, scale), freq)>>

\* Lines 26-47: the term octave `octave` adds to cell (x, y).
OctaveTerm(noise_gen, x, y, scale, octave) ==
    LET freq == RInt(Pow2(octave))
        amp  == Rat(1, Pow2(octave))
        a    == Noise4Inputs(x, y, scale, freq)
    IN  RMul(noise4(noise_gen, a[1], a[2], a[3], a[4]), amp)

GTIdle ==
    [pc |-> "idle", args |-> <<>>, sched |-> "row_major", octave |-> 0,
     filled |-> {}, noise |-> Zeros, samples |-> 0]

\* Line 23: entry, `noise = np.zeros((SIZE, SIZE))`.
GT_Enter(a, sched) ==
    gt' = [pc |-> "loop", args |-> a, sched |-> sched, octave |-> 0,
           filled |-> {}, noise |-> Zeros, samples |-> 0]

\* Mutant: the term is added to what the cell to the left holds
\* (noise[y, x] = noise[y, x - 1] + ...; index -1 is the last column).
GT_CellRunning ==
    /\ gt.pc = "loop"
    /\ gt.octave < gt.args.octaves
    /\ \E c \in NextCells(gt.filled, gt.sched) :
          gt' = [gt EXCEPT
                   !.noise[c] = RAdd(gt.noise[<<(c[1] - 1) % SIZE, c[2]>>],
                                     OctaveTerm(gt.args.noise_gen, c[1], c[2],
                                                gt.args.scale, gt.octave)),
                   !.filled   = @ \cup {c},
                   !.samples  = @ + 1]
    /\ UNCHANGED <<script, perm, tn, sky, fields, img_array, nan_cast,
                   first, calls>>
    /\ UNCHANGED other_scripts

\* Lines 29-47: the loop body for one cell of the current octave.
GT_Cell ==
    /\ gt.pc = "loop"
    /\ gt.octave < gt.args.octaves
    /\ \E c \in NextCells(gt.filled, gt.sched) :
          gt' = [gt EXCEPT
                   !.noise[c] = RAdd(@, OctaveTerm(gt.args.noise_gen, c[1], c[2],
                                                   gt.args.scale, gt.octave)),
                   !.filled   = @ \cup {c},
                   !.samples  = @ + 1]
    /\ UNCHANGED <<script, perm, tn, sky, fields, img_array, nan_cast,
                   first, calls>>
    /\ UNCHANGED other_scripts

\* Line 25: the cell loops of one octave are through, the next octave starts.
GT_NextOctave ==
    /\ gt.pc = "loop"
    /\ gt.octave < gt.args.octaves
    /\ gt.filled = Cells
    /\ gt' = [gt EXCEPT !.octave = @ + 1, !.filled = {}]
    /\ UNCHANGED <<script, perm, tn, sky, fields, img_array, nan_cast,
                   first, calls>>
    /\ UNCHANGED other_scripts

\* Line 49: `return noise`.
GT_Return ==
    /\ gt.pc = "loop"
    /\ gt.octave >= gt.args.octaves
    /\ gt' = [gt EXCEPT !.pc = "done"]
    /\ first' = Recorded("generate_tileable_noise", gt.args,
                         <<"returned", gt.noise>>)
    /\ UNCHANGED <<script, perm, tn, sky, fields, img_array, nan_cast,
                   calls>>
    /\ UNCHANGED other_scripts

---------------------------------------------------------------------------
(* dark_sky: generate_dark_sky                                             *)

\* Keyword defaults of toroidal_noise (line 23) with the scale of the base
\* layer (line 86).
TNDefault ==
    [size |-> SIZE, scale |-> RInt(2), octaves |-> 4,
     persistence |-> Rat(1, 2), lacunarity |-> RInt(2)]

\* The three layer configurations of generate_dark_sky (lines 86, 96, 106).
SkyLayers ==
    <<[TNDefault EXCEPT !.scale = RInt(2), !.octaves = 3],
      [TNDefault EXCEPT !.scale = RInt(4), !.octaves = 4,
                        !.persistence = Rat(3, 5)],
      [TNDefault EXCEPT !.scale = RInt(8), !.octaves = 2,
                        !.persistence = Rat(2, 5)]>>

LayerNames == <<"base_noise", "detail_noise", "turbulence">>

WithCell(cfg, c) ==
    [x |-> c[1], y |-> c[2], size |-> cfg.size, scale |-> cfg.scale,
     octaves |-> cfg.octaves, persistence |-> cfg.persistence,
     lacunarity |-> cfg.lacunarity]

\* ndarray.min() / ndarray.max(): NaN as soon as one element is NaN.
FieldMin(f) ==
    IF \E c \in Cells : ~IsFinite(f[c]) THEN NaN
    ELSE LET m == CHOOSE c \in Cells : \A o \in Cells : RLe(f[c], f[o])
         IN  f[m]

FieldMax(f) ==
    IF \E c \in Cells : ~IsFinite(f[c]) THEN NaN
    ELSE LET m == CHOOSE c \in Cells : \A o \in Cells : RLe(f[o], f[c])
         IN  f[m]

\* Lines 89, 99, 109, 116: (f - f.min()) / (f.max() - f.min()).
MinMaxNormalize(f) ==
    LET lo == FieldMin(f)
        hi == FieldMax(f)
    IN  [c \in Cells |-> NpDiv(RSub(f[c], lo), RSub(hi, lo))]

SkyStart ==
    [pc |-> "start", sched |-> "row_major", layer |-> 1, filled |-> {},
     cur |-> <<0, 0>>]

FieldsStart ==
    [base_noise |-> Zeros, detail_noise |-> Zeros, turbulence |-> Zeros,
     combined |-> Zeros]

\* Lines 76-83: the image array and the first layer's array are created.
Sky_Begin ==
    /\ script = "dark_sky"
    /\ sky.pc = "start"
    /\ \E sched \in Schedules :
          sky' = [sky EXCEPT !.pc = "fill", !.sched = sched, !.layer = 1,
                             !.filled = {}]
    /\ img_array' = [c \in Cells |-> <<0, 0, 0>>]
    /\ fields' = [fields EXCEPT !.base_noise = Zeros]
    /\ UNCHANGED <<script, perm, tn, gt, nan_cast, first, calls>>
    /\ UNCHANGED other_scripts

\* Lines 86, 96, 106: the call of toroidal_noise for the next cell.
Sky_CallCell ==
    /\ script = "dark_sky"
    /\ sky.pc = "fill"
    /\ \E c \in NextCells(sky.filled, sky.sched) :
          /\ TN_Enter(WithCell(SkyLayers[sky.layer], c))
          /\ sky' = [sky EXCEPT !.pc = "call", !.cur = c]
    /\ UNCHANGED <<script, perm, gt, fields, img_array, nan_cast,
                   first, calls>>
    /\ UNCHANGED other_scripts

\* Lines 86, 96, 106: the returned value is stored in the layer's cell.
Sky_StoreCell ==
    /\ script = "dark_sky"
    /\ sky.pc = "call"
    /\ tn.pc = "done"
    /\ fields' = [fields EXCEPT ![LayerNames[sky.layer]][sky.cur] = tn.result]
    /\ sky' = [sky EXCEPT !.pc = "fill", !.filled = @ \cup {sky.cur}]
    /\ UNCHANGED <<script, perm, tn, gt, img_array, nan_cast, first, calls>>
    /\ UNCHANGED other_scripts

\* Lines 89, 99, 109: the filled layer is normalized; the next layer's array
\* is created (lines 93, 103).
Sky_NormalizeLayer ==
    /\ script = "dark_sky"
    /\ sky.pc = "fill"
    /\ sky.filled = Cells
    /\ fields' = [fields EXCEPT ![LayerNames[sky.layer]] = MinMaxNormalize(@)]
    /\ sky' = IF sky.layer < 3
              THEN [sky EXCEPT !.layer = @ + 1, !.filled = {}]
              ELSE [sky EXCEPT !.pc = "combine"]
    /\ UNCHANGED <<script, perm, tn, gt, img_array, nan_cast, first, calls>>
    /\ UNCHANGED other_scripts

\* Line 113: the weighted sum of the three layers.
Sky_Combine ==
    /\ script = "dark_sky"
    /\ sky.pc = "combine"
    /\ fields' = [fields EXCEPT !.combined =
          [c \in Cells |->
              RAdd(RAdd(RMul(fields.base_noise[c], Rat(6, 10)),
                        RMul(fields.detail_noise[c], Rat(3, 10))),
                   RMul(fields.turbulence[c], Rat(1, 10)))]]
    /\ sky' = [sky EXCEPT !.pc = "normalize"]
    /\ UNCHANGED <<script, perm, tn, gt, img_array, nan_cast, first, calls>>
    /\ UNCHANGED other_scripts

\* Line 116: the combined field is normalized.
Sky_NormalizeCombined ==
    /\ script = "dark_sky"
    /\ sky.pc = "normalize"
    /\ fields' = [fields EXCEPT !.combined = MinMaxNormalize(@)]
    /\ sky' = [sky EXCEPT !.pc = "power"]
    /\ UNCHANGED <<script, perm, tn, gt, img_array, nan_cast, first, calls>>
    /\ UNCHANGED other_scripts

\* The integer square root, by bisection.
RECURSIVE ISqrtIn(_, _, _)
ISqrtIn(v, lo, hi) ==
    IF lo >= hi THEN lo
    ELSE LET mid == (lo + hi + 1) \div 2
         IN  IF mid * mid <= v THEN ISqrtIn(v, mid, hi)
             ELSE ISqrtIn(v, lo, mid - 1)

ISqrt(v) == ISqrtIn(v, 0, IF v < 46340 THEN v ELSE 46340)

\* np.power keeps PowRes steps between 0 and 1 (the precision of the result).
PowRes == 1000

\* <<q, r>> with n * k = q * d + r and 0 <= r < d, for 0 <= n < d, by
\* doubling (the product n * k itself may not fit a machine integer).
RECURSIVE MulDivQR(_, _, _)
MulDivQR(n, k, d) ==
    IF k = 0 THEN <<0, 0>>
    ELSE LET h  == MulDivQR(n, k \div 2, d)
             c2 == IF 2 * h[2] >= d THEN 1 ELSE 0
             q2 == 2 * h[1] + c2
             r2 == 2 * h[2] - c2 * d
             c3 == IF r2 + n >= d THEN 1 ELSE 0
         IN  IF k % 2 = 0 THEN <<q2, r2>>
             ELSE <<q2 + c3, r2 + n - c3 * d>>

\* floor(a * k) for a finite a >= 0.
ScaleFloor(a, k) ==
    (a.n \div a.d) * k + MulDivQR(a.n % a.d, k, a.d)[1]

\* np.power(a, 2.5) = a * a * sqrt(a) in fixed point with PowRes steps,
\* every intermediate result rounded down; NaN for NaN and a negative base.
NpPower25(a) ==
    IF ~IsFinite(a) \/ a.n < 0 THEN NaN
    ELSE LET x    == ScaleFloor(a, PowRes)
             sq   == (x * x) \div PowRes
             root == ISqrt(x * PowRes)
         IN  Rat((sq * root) \div PowRes, PowRes)

\* Line 120: the dark bias.
Sky_Power ==
    /\ script = "dark_sky"
    /\ sky.pc = "power"
    /\ fields' = [fields EXCEPT !.combined =
                     [c \in Cells |-> NpPower25(fields.combined[c])]]
    /\ sky' = [sky EXCEPT !.pc = "palette", !.filled = {}]
    /\ UNCHANGED <<script, perm, tn, gt, img_array, nan_cast, first, calls>>
    /\ UNCHANGED other_scripts

\* Lines 17-21: the palette.
DARKEST == <<14, 14, 18>>
DARK_GRAY == <<26, 26, 30>>
MID_DARK == <<42, 42, 48>>
CLOUD_EDGE == <<48, 48, 56>>
LIGHTEST == <<58, 58, 66>>

\* lo + (hi - lo) * t on RGB triples.
Lerp(lo, hi, t) ==
    [k \in 1 .. 3 |-> RAdd(RInt(lo[k]), RMul(RInt(hi[k] - lo[k]), t))]

\* Lines 131, 134-135, 138-139, 142-143: the four segments of the ramp.
RampDarkest(value) ==
    Lerp(DARKEST, DARK_GRAY, NpDiv(value, Rat(2, 10)))

\* Mutant: the second segment is scaled by the width of the third.
RampDarkGrayNarrow(value) ==
    Lerp(DARK_GRAY, MID_DARK, NpDiv(RSub(value, Rat(2, 10)), Rat(25, 100)))

RampDarkGray(value) ==
    Lerp(DARK_GRAY, MID_DARK, NpDiv(RSub(value, Rat(2, 10)), Rat(3, 10)))

RampMidDark(value) ==
    Lerp(MID_DARK, CLOUD_EDGE, NpDiv(RSub(value, Rat(5, 10)), Rat(25, 100)))

RampCloudEdge(value) ==
    Lerp(CLOUD_EDGE, LIGHTEST, NpDiv(RSub(value, Rat(75, 100)), Rat(25, 100)))

\* Lines 129-143: the if / elif chain (every comparison with NaN is false).
PaletteColor(value) ==
    IF RLt(value, Rat(2, 10)) THEN RampDarkest(value)
    ELSE IF RLt(value, Rat(5, 10)) THEN RampDarkGray(value)
    ELSE IF RLt(value, Rat(75, 100)) THEN RampMidDark(value)
    ELSE RampCloudEdge(value)

\* What a build may store for NaN converted to uint8 (undefined in C).
NanCastOutcomes == {0, 255}

\* Line 145: color.astype(np.uint8), truncation toward zero, modulo 256.
AsUint8(color, nan_byte) ==
    [k \in 1 .. 3 |-> IF IsFinite(color[k]) THEN RTrunc(color[k]) % 256
                      ELSE nan_byte]

\* Lines 124-145: one pixel of the palette loop (row-major).
Sky_Paint ==
    /\ script = "dark_sky"
    /\ sky.pc = "palette"
    /\ sky.filled # Cells
    /\ LET c     == FirstOf(Cells \ sky.filled)
           color == PaletteColor(fields.combined[c])
       IN  /\ \E b \in NanCastOutcomes :
                /\ nan_cast.seen => b = nan_cast.byte
                /\ (\A k \in 1 .. 3 : IsFinite(color[k])) => b = nan_cast.byte
                /\ img_array' = [img_array EXCEPT ![c] = AsUint8(color, b)]
                /\ nan_cast' = IF \A k \in 1 .. 3 : IsFinite(color[k])
                               THEN nan_cast
                               ELSE [seen |-> TRUE, byte |-> b]
           /\ sky' = [sky EXCEPT !.filled = @ \cup {c}]
    /\ UNCHANGED <<script, perm, tn, gt, fields, first, calls>>
    /\ UNCHANGED other_scripts

\* Lines 148-152: the image is written.
Sky_Save ==
    /\ script = "dark_sky"
    /\ sky.pc = "palette"
    /\ sky.filled = Cells
    /\ sky' = [sky EXCEPT !.pc = "saved"]
    /\ UNCHANGED <<script, perm, tn, gt, fields, img_array, nan_cast,
                   first, calls>>
    /\ UNCHANGED other_scripts

---------------------------------------------------------------------------
(* Direct calls ("api" driver) *)

\* The cells direct calls of toroidal_noise are made at.
ApiCells == {<<0, 0>>, <<1, SIZE - 1>>}

\* Configurations of direct calls: the layers, and the default varied in
\* one parameter.
ApiConfigs ==
    {SkyLayers[k] : k \in 1 .. 3}
    \cup {[TNDefault EXCEPT !.octaves = o] : o \in 0 .. MaxOctaves}
    \cup {[TNDefault EXCEPT !.octaves = o, !.persistence = RInt(0)] :
             o \in 0 .. MaxOctaves}
    \cup {[TNDefault EXCEPT !.octaves = 2, !.persistence = RInt(1)]}
    \cup {[TNDefault EXCEPT !.octaves = 2, !.scale = RInt(s)] : s \in {0, -2}}
    \cup {[TNDefault EXCEPT !.octaves = 2, !.size = s] : s \in {0, -SIZE}}

\* The three calls of snow_dirt's main (lines 53-55, 59, 74, 97).
SnowLayers ==
    <<[noise_gen |-> 42, scale |-> Rat(5, 100), octaves |-> 3],
      [noise_gen |-> 123, scale |-> Rat(3, 100), octaves |-> 2],
      [noise_gen |-> 789, scale |-> Rat(15, 100), octaves |-> 2]>>

ApiGTConfigs ==
    {SnowLayers[k] : k \in 1 .. 3}
    \cup {[SnowLayers[1] EXCEPT !.octaves = o] : o \in 0 .. MaxOctaves}
    \cup {[SnowLayers[1] EXCEPT !.octaves = 2, !.scale = s] :
             s \in {RInt(0), Rat(-5, 100)}}

ApiReady ==
    /\ script = "api"
    /\ tn.pc \in {"idle", "done", "raised"}
    /\ gt.pc \in {"idle", "done"}
    /\ calls < MaxCalls

\* The first direct call takes any of the configurations; a later call
\* repeats the first call's arguments or is one fixed other call.
ToroidalCalls ==
    IF ~first.set THEN {WithCell(cfg, c) : cfg \in ApiConfigs, c \in ApiCells}
    ELSE {WithCell(SkyLayers[3], <<1, SIZE - 1>>)}
         \cup (IF first.fn = "toroidal_noise" THEN {first.args} ELSE {})

TileableCalls ==
    IF ~first.set THEN ApiGTConfigs
    ELSE {SnowLayers[2]}
         \cup (IF first.fn = "generate_tileable_noise" THEN {first.args}
               ELSE {})

Api_CallToroidal ==
    /\ ApiReady
    /\ \E a \in ToroidalCalls :
          /\ TN_Enter(a)
          /\ first' = IF a.size = 0
                      THEN Recorded("toroidal_noise", a,
                                    <<"raised", "ZeroDivisionError">>)
                      ELSE first
    /\ gt' = GTIdle
    /\ calls' = calls + 1
    /\ UNCHANGED <<script, perm, sky, fields, img_array, nan_cast>>
    /\ UNCHANGED other_scripts

Api_CallTileable ==
    /\ ApiReady
    /\ \E cfg \in TileableCalls, sched \in Schedules : GT_Enter(cfg, sched)
    /\ tn' = TNIdle
    /\ calls' = calls + 1
    /\ UNCHANGED <<script, perm, sky, fields, img_array, nan_cast, first>>
    /\ UNCHANGED other_scripts

---------------------------------------------------------------------------
(* snow_dirt: main                                                         *)

\* Lines 14-19: the palette.
DIRT_DARK == <<42, 26, 16>>
DIRT_LIGHT == <<74, 58, 42>>
SNOW_DARK == <<235, 240, 250>>
SNOW_LIGHT == <<240, 245, 255>>
GRASS_YELLOW == <<138, 122, 64>>
GRASS_GREEN == <<106, 98, 56>>

\* Pebbles painted in a run (num_pebbles of line 108, cut down).
MaxPebbles == 1

\* Grass bits painted in a run (num_grass_bits of line 133, cut down).
MaxGrass == 1

\* Directions np.random.random() * 2 * np.pi is drawn from (line 145).
AngleSteps == 4

SnowFieldNames == <<"dirt_variation", "snow_layer", "detail">>

NoStroke ==
    [kind |-> "none", cx |-> 0, cy |-> 0, size |-> 0, color |-> <<0, 0, 0>>,
     writes |-> <<>>]

SnowStart ==
    [pc |-> "noise", layer |-> 1, dirt_variation |-> Zeros,
     snow_layer |-> Zeros, detail |-> Zeros, pebbles |-> 0, grass |-> 0,
     stroke |-> NoStroke]

\* Mutant: the remainder of C, which has the sign of a.
CRem(a, n) == IF a >= 0 THEN a % n ELSE -((-a) % n)

\* a % n of Python: the result has the sign of n (n > 0: 0 .. n - 1).
PyMod(a, n) == ((a % n) + n) % n

\* np.clip(v, lo, hi) on a float.
NpClip(v, lo, hi) == IF RLt(v, lo) THEN lo ELSE IF RLt(hi, v) THEN hi ELSE v

\* a * (1 - t) + b * t on RGB triples, a and b of integers.
Mix(a, b, t) ==
    [k \in 1 .. 3 |-> RAdd(RMul(RInt(a[k]), RSub(RInt(1), t)),
                           RMul(RInt(b[k]), t))]

\* Lines 60, 75, 98: (noise + 1) / 2.
HalfShift(noise) ==
    [c \in Cells |-> NpDiv(RAdd(noise[c], RInt(1)), RInt(2))]

\* Lines 68-70: the dirt colour of one pixel.
DirtPixel(t) == AsUint8(Mix(DIRT_DARK, DIRT_LIGHT, t), 0)

\* Lines 80-92: one pixel of the snow pass.
SnowPixel(old, v) ==
    LET snow_threshold == Rat(38, 100)
        snow_strength  ==
            NpClip(NpDiv(RSub(v, snow_threshold),
                         RSub(RInt(1), snow_threshold)), RInt(0), RInt(1))
        t              == RMul(snow_strength, Rat(1, 2))
        snow_color     == Mix(SNOW_DARK, SNOW_LIGHT, t)
        blend_factor   == RMul(snow_strength, Rat(98, 100))
    IN  IF RLt(snow_threshold, v)
        THEN AsUint8([k \in 1 .. 3 |->
                        RAdd(RMul(RInt(old[k]), RSub(RInt(1), blend_factor)),
                             RMul(snow_color[k], blend_factor))], 0)
        ELSE old

\* Lines 102-103: one pixel of the detail pass.
DetailPixel(old, d) ==
    LET detail_factor == RMul(RSub(d, Rat(1, 2)), Rat(15, 100))
    IN  AsUint8([k \in 1 .. 3 |->
                   NpClip(RMul(RInt(old[k]), RAdd(RInt(1), detail_factor)),
                          RInt(0), RInt(255))], 0)

\* Lines 59, 74, 97: the call of generate_tileable_noise for the layer.
Snow_CallNoise ==
    /\ script = "snow_dirt"
    /\ snow.pc = "noise"
    /\ \E sched \in Schedules : GT_Enter(SnowLayers[snow.layer], sched)
    /\ snow' = [snow EXCEPT !.pc = "wait"]
    /\ UNCHANGED <<script, perm, tn, sky, fields, img_array, nan_cast,
                   first, calls>>
    /\ UNCHANGED icons

\* Lines 60, 75, 98: the returned field is shifted and halved.
Snow_Normalize ==
    /\ script = "snow_dirt"
    /\ snow.pc = "wait"
    /\ gt.pc = "done"
    /\ snow' = [snow EXCEPT ![SnowFieldNames[snow.layer]] = HalfShift(gt.noise),
                            !.pc = "apply"]
    /\ gt' = GTIdle
    /\ UNCHANGED <<script, perm, tn, sky, fields, img_array, nan_cast,
                   first, calls>>
    /\ UNCHANGED icons

\* Lines 63-70, 78-92, 100-103: the pixel loop that applies the layer.
Snow_Apply ==
    /\ script = "snow_dirt"
    /\ snow.pc = "apply"
    /\ img_array' =
          [c \in Cells |->
              IF snow.layer = 1 THEN DirtPixel(snow.dirt_variation[c])
              ELSE IF snow.layer = 2
                   THEN SnowPixel(img_array[c], snow.snow_layer[c])
                   ELSE DetailPixel(img_array[c], snow.detail[c])]
    /\ snow' = IF snow.layer < 3
               THEN [snow EXCEPT !.pc = "noise", !.layer = @ + 1]
               ELSE [snow EXCEPT !.pc = "pebbles"]
    /\ UNCHANGED <<script, perm, tn, gt, sky, fields, nan_cast, first, calls>>
    /\ UNCHANGED icons

\* Lines 120-121, 157-158: the pixel for centre (cx, cy) and offset o.
WrapPixel(cx, cy, o) == <<PyMod(cx + o[1], SIZE), PyMod(cy + o[2], SIZE)>>

\* The pixels a stroke addresses, in the order of its loops.
Addressed(cx, cy, offsets) ==
    [k \in 1 .. Len(offsets) |->
        [ox |-> offsets[k][1], oy |-> offsets[k][2],
         px |-> WrapPixel(cx, cy, offsets[k])[1],
         py |-> WrapPixel(cx, cy, offsets[k])[2]]]

\* Lines 117-119: the offsets of a pebble, dy outer and dx inner, inside
\* the disc.
PebbleOffsets(radius) ==
    LET w   == 2 * radius + 1
        all == [k \in 1 .. w * w |->
                  <<((k - 1) % w) - radius, ((k - 1) \div w) - radius>>]
        InDisc(o) == o[1] * o[1] + o[2] * o[2] <= radius * radius
    IN  SelectSeq(all, InDisc)

\* Lines 124-127: a pebble pixel, painted only where the image is not bright.
PebblePixel(old) ==
    LET blend == Rat(6, 10)
        pebble_color == [k \in 1 .. 3 |-> RMul(RInt(DIRT_DARK[k]), Rat(6, 10))]
    IN  IF old[1] + old[2] + old[3] < 180
        THEN AsUint8([k \in 1 .. 3 |->
                        RAdd(RMul(RInt(old[k]), RSub(RInt(1), blend)),
                             RMul(pebble_color[k], blend))], 0)
        ELSE old

\* Lines 117-127: the writes of one pebble, one after the other.
RECURSIVE PaintPebble(_, _)
PaintPebble(img, writes) ==
    IF writes = <<>> THEN img
    ELSE LET p == <<Head(writes).px, Head(writes).py>>
         IN  PaintPebble(IF p \in Cells
                         THEN [img EXCEPT ![p] = PebblePixel(img[p])]
                         ELSE img,
                         Tail(writes))

\* Lines 148-158: the offset of step i along the line and t across it.
GrassOffset(angle, thickness, i, t) ==
    LET dx         == RTrunc(RMul(NpCos(angle), RInt(i)))
        dy         == RTrunc(RMul(NpSin(angle), RInt(i)))
        perp_angle == RAdd(angle, NpDiv(NpPi, RInt(2)))
        across     == RSub(RInt(t), Rat(thickness, 2))
        offset_x   == RTrunc(RMul(NpCos(perp_angle), across))
        offset_y   == RTrunc(RMul(NpSin(perp_angle), across))
    IN  <<dx + offset_x, dy + offset_y>>

\* Lines 148-153: the offsets of a grass bit, i outer and t inner.
GrassOffsets(angle, length, thickness) ==
    [k \in 1 .. length * thickness |->
        GrassOffset(angle, thickness, (k - 1) \div thickness,
                    (k - 1) % thickness)]

\* Lines 161-163: a grass pixel.
GrassPixel(old, grass_color) ==
    LET blend == Rat(85, 100)
    IN  AsUint8([k \in 1 .. 3 |->
                   RAdd(RMul(RInt(old[k]), RSub(RInt(1), blend)),
                        RMul(RInt(grass_color[k]), blend))], 0)

\* Lines 148-163: the writes of one grass bit, one after the other.
RECURSIVE PaintGrass(_, _, _)
PaintGrass(img, writes, grass_color) ==
    IF writes = <<>> THEN img
    ELSE LET p == <<Head(writes).px, Head(writes).py>>
         IN  PaintGrass(IF p \in Cells
                        THEN [img EXCEPT ![p] = GrassPixel(img[p], grass_color)]
                        ELSE img,
                        Tail(writes), grass_color)

\* The centres np.random.randint(0, SIZE) is drawn from in the runs: the
\* two corners, where strokes cross the edges.
StrokeCentres == {<<0, 0>>, <<SIZE - 1, SIZE - 1>>}

\* The colour, length and thickness drawn for a grass bit (lines 141-146):
\* the shortest and thinnest, the longest and thickest, and one between.
GrassDraws ==
    {[grass_color |-> GRASS_YELLOW, length |-> 4, thickness |-> 2],
     [grass_color |-> GRASS_YELLOW, length |-> 5, thickness |-> 3],
     [grass_color |-> GRASS_GREEN, length |-> 6, thickness |-> 3]}

\* Lines 110-127: one pebble; cx, cy and radius are drawn by np.random.
Snow_Pebble ==
    /\ script = "snow_dirt"
    /\ snow.pc = "pebbles"
    /\ \E c \in StrokeCentres, radius \in 1 .. 2 :
          LET writes == Addressed(c[1], c[2], PebbleOffsets(radius))
          IN  /\ img_array' = PaintPebble(img_array, writes)
              /\ snow' = [snow EXCEPT
                            !.pebbles = @ + 1,
                            !.pc = IF snow.pebbles + 1 < MaxPebbles
                                   THEN "pebbles" ELSE "grass",
                            !.stroke = [kind |-> "pebble", cx |-> c[1],
                                        cy |-> c[2], size |-> radius,
                                        color |-> DIRT_DARK,
                                        writes |-> writes]]
    /\ UNCHANGED <<script, perm, tn, gt, sky, fields, nan_cast, first, calls>>
    /\ UNCHANGED icons

\* Lines 135-163: one grass bit; centre, colour, length, angle and
\* thickness are drawn by np.random.
Snow_Grass ==
    /\ script = "snow_dirt"
    /\ snow.pc = "grass"
    /\ \E c \in StrokeCentres, draw \in GrassDraws,
          step \in 0 .. AngleSteps - 1 :
          LET grass_color == draw.grass_color
              length      == draw.length
              thickness   == draw.thickness
              angle  == RMul(RMul(Rat(step, AngleSteps), RInt(2)), NpPi)
              writes == Addressed(c[1], c[2],
                                  GrassOffsets(angle, length, thickness))
          IN  /\ img_array' = PaintGrass(img_array, writes, grass_color)
              /\ snow' = [snow EXCEPT
                            !.grass = @ + 1,
                            !.pc = IF snow.grass + 1 < MaxGrass
                                   THEN "grass" ELSE "save",
                            !.stroke = [kind |-> "grass", cx |-> c[1],
                                        cy |-> c[2],
                                        size |-> length * thickness,
                                        color |-> grass_color,
                                        writes |-> writes]]
    /\ UNCHANGED <<script, perm, tn, gt, sky, fields, nan_cast, first, calls>>
    /\ UNCHANGED icons

\* Lines 169-170: the image is written.
Snow_Save ==
    /\ script = "snow_dirt"
    /\ snow.pc = "save"
    /\ snow' = [snow EXCEPT !.pc = "saved"]
    /\ UNCHANGED <<script, perm, tn, gt, sky, fields, img_array, nan_cast,
                   first, calls>>
    /\ UNCHANGED icons

---------------------------------------------------------------------------
(* The item icons: what the five scripts share                             *)

\* SIZE = 64 in every icon script (trail_mix line 12, baseball_bat line 14,
\* binoculars line 12, hazmat_suit line 12, coachs_whistle line 13).
ICON_SIZE == 64

\* Pixel positions <<x, y>>; the arrays are indexed [y, x], PIL by (x, y).
Pixels == (0 .. ICON_SIZE - 1) \X (0 .. ICON_SIZE - 1)

InCanvas(x, y) == 0 <= x /\ x < ICON_SIZE /\ 0 <= y /\ y < ICON_SIZE

\* Image.new('RGBA', (SIZE, SIZE), (0, 0, 0, 0)): colours are <<r, g, b, a>>.
Transparent == <<0, 0, 0, 0>>
Blank == [p \in Pixels |-> Transparent]

\* The streams of random numbers a run may see (random and np.random, seeded
\* or not).  A pass reads the stream of its run at an index k of its own (a
\* pixel, a loop counter).
Draws == {"low", "high", "even", "odd", "thirds"}

\* random.random() < threshold, for a threshold strictly between 0 and 1.
Below(draw, k) ==
    CASE draw = "low" -> TRUE
      [] draw = "high" -> FALSE
      [] draw = "even" -> k % 2 = 0
      [] draw = "odd" -> k % 2 = 1
      [] OTHER -> k % 3 = 0

\* random.randint(lo, hi) (both ends included).
RandInt(draw, k, lo, hi) ==
    CASE draw = "low" -> lo
      [] draw = "high" -> hi
      [] draw = "odd" -> hi - ((5 * k) % (hi - lo + 1))
      [] OTHER -> lo + ((7 * k) % (hi - lo + 1))

\* max(0, min(255, v)) / np.clip(v, 0, 255) on integers.
ClipByte(v) == IF v < 0 THEN 0 ELSE IF v > 255 THEN 255 ELSE v

\* Pixels whose value differs between two images.
Changed(old, new) == {p \in Pixels : old[p] # new[p]}

\* One layer of n stamps painted one after the other: the last stamp that
\* writes a pixel decides the pixel.
Layer(img, n, Hit(_, _), Colour(_, _)) ==
    [p \in Pixels |->
        LET hits == {i \in 0 .. n - 1 : Hit(i, p)}
        IN  IF hits = {} THEN img[p]
            ELSE Colour(CHOOSE i \in hits : \A j \in hits : j <= i, p)]

\* The line loop of coachs_whistle's draw_lanyard (lines 188-222) before it
\* is entered: pc is where the loop stands ("idle", "loop", "break" once it
\* has left through line 212, "cap" once steps < max_steps has failed).
NoLine ==
    [pc |-> "idle", from |-> <<0, 0>>, to |-> <<0, 0>>,
     x |-> 0, y |-> 0, err |-> 0, steps |-> 0]

\* A call of baseball_bat's distance_to_line before it is made: its
\* arguments (px, py, x1, y1, x2, y2) and what it returns.
NoCall ==
    [called |-> FALSE, args |-> <<0, 0, 0, 0, 0, 0>>,
     sq |-> RInt(0), dist |-> RInt(0), t |-> RInt(0)]

\* Before the first pass of a script: the next pass, the passes that ran, the
\* number of pixels the last pass changed, the random stream of the run.
IconStart ==
    [step |-> 1, done |-> <<>>, touched |-> 0, draw |-> "low", line |-> NoLine,
     distance |-> NoCall]

---------------------------------------------------------------------------
(* trail_mix: generate_texture                                             *)

\* Lines 18-34: PALETTE.
bag_light == <<220, 225, 230, 180>>
bag_dark == <<180, 185, 195, 200>>
bag_crinkle == <<160, 165, 175, 220>>
ziplock_seal == <<120, 140, 160, 255>>
peanut_light == <<210, 180, 140, 255>>
peanut_dark == <<160, 130, 90, 255>>
raisin == <<60, 40, 30, 255>>
candy_colors == <<<<200, 40, 40, 255>>, <<220, 200, 40, 255>>,
                  <<40, 80, 180, 255>>>>
seed_light == <<200, 195, 190, 255>>
seed_dark == <<100, 95, 90, 255>>

\* Lines 43-49 (and 120-122): the bag bounds and the seal row.
bag_left == 12
bag_right == 52
bag_top == 8
bag_bottom == 56
ziplock_y == 14
\* Line 69 and line 80.
max_pinch_distance == 10
corner_radius == 4

\* Lines 54-74: how much narrower than the bag bounds row y is on each side.
pinch_amount(y) ==
    IF y < ziplock_y
    THEN RTrunc(RMul(RInt(8),
             RSub(RInt(1), RMul(Rat(ziplock_y - y, ziplock_y - bag_top),
                                Rat(1, 2)))))
    ELSE IF y - ziplock_y < max_pinch_distance
         THEN RTrunc(RMul(RInt(8),
                  RSub(RInt(1), Rat(y - ziplock_y, max_pinch_distance))))
         ELSE 0

\* Lines 62-63 and 75-76.
current_left(y) == bag_left + pinch_amount(y)
current_right(y) == bag_right - pinch_amount(y)

\* Lines 81-108: the pixel is cut away by a rounded corner of its row.
in_corner(x, y) ==
    LET r2 == corner_radius * corner_radius
        lx == (current_left(y) + corner_radius) - x
        rx == x - (current_right(y) - corner_radius)
        ty == (bag_top + corner_radius) - y
        by == y - (bag_bottom - corner_radius)
    IN  \/ x < current_left(y) + corner_radius /\ y < bag_top + corner_radius
           /\ lx * lx + ty * ty > r2
        \/ x > current_right(y) - corner_radius /\ y < bag_top + corner_radius
           /\ rx * rx + ty * ty > r2
        \/ x < current_left(y) + corner_radius
           /\ y > bag_bottom - corner_radius
           /\ lx * lx + by * by > r2
        \/ x > current_right(y) - corner_radius
           /\ y > bag_bottom - corner_radius
           /\ rx * rx + by * by > r2

\* Lines 52, 78 and 110: the pixels draw_bag_shape writes.
BagPixel(p) ==
    /\ bag_top <= p[2] /\ p[2] < bag_bottom
    /\ current_left(p[2]) <= p[1] /\ p[1] < current_right(p[2])
    /\ ~in_corner(p[1], p[2])

\* Lines 40-116.
draw_bag_shape(img, draw) ==
    [p \in Pixels |->
        IF BagPixel(p)
        THEN IF Below(draw, p[1] + p[2]) THEN bag_dark ELSE bag_light
        ELSE img[p]]

\* Lines 161-164.
interior_left == 15
interior_right == 49
interior_top == 20
interior_bottom == 53

\* Lines 177, 193, 209 and 221: the guard of every write of the pieces.
InInterior(x, y) ==
    /\ interior_left <= x /\ x < interior_right
    /\ interior_top <= y /\ y < interior_bottom

\* Lines 168-169 (185-186, 199-200, 214-215): the centre of piece i, cx in
\* interior_left + a .. interior_right - a, cy in interior_top ..
\* interior_bottom - b.
PieceCentre(draw, i, a, b) ==
    <<RandInt(draw, i, interior_left + a, interior_right - a),
      RandInt(draw, i + 3, interior_top, interior_bottom - b)>>

\* Lines 167-181: peanut i writes p.
PeanutHit(draw, i, p) ==
    LET c == PieceCentre(draw, i, 3, 3)
        dx == p[1] - c[1]
        dy == p[2] - c[2]
    IN  /\ dx \in -2 .. 2 /\ dy \in -3 .. 3
        /\ RLe(RAdd(RMul(Rat(2 * dx, 5), Rat(2 * dx, 5)),
                    RMul(Rat(2 * dy, 7), Rat(2 * dy, 7))), RInt(1))
        /\ InInterior(p[1], p[2])

\* Lines 184-194: raisin i writes p.
RaisinHit(draw, i, p) ==
    LET c == PieceCentre(draw, i, 1, 1)
        dx == p[1] - c[1]
        dy == p[2] - c[2]
    IN  /\ dx \in -1 .. 1 /\ dy \in -1 .. 1
        /\ Below(draw, i + dx + dy)
        /\ InInterior(p[1], p[2])

\* Lines 198-210: candy i writes p.
CandyHit(draw, i, p) ==
    LET c == PieceCentre(draw, i, 2, 2)
        dx == p[1] - c[1]
        dy == p[2] - c[2]
    IN  /\ dx \in -2 .. 2 /\ dy \in -2 .. 2
        /\ dx * dx + dy * dy <= 4
        /\ InInterior(p[1], p[2])

\* Lines 213-225: seed i writes p.
SeedHit(draw, i, p) ==
    LET c == PieceCentre(draw, i, 1, 1)
        dx == p[1] - c[1]
        dy == p[2] - c[2]
    IN  /\ dx \in -1 .. 0 /\ dy \in -1 .. 1
        /\ InInterior(p[1], p[2])

\* Lines 158-225.
draw_trail_mix_pieces(img, draw) ==
    LET PHit(i, p) == PeanutHit(draw, i, p)
        PCol(i, p) == IF Below(draw, i + p[1] + p[2])
                      THEN peanut_light ELSE peanut_dark
        RHit(i, p) == RaisinHit(draw, i, p)
        RCol(i, p) == raisin
        CHit(i, p) == CandyHit(draw, i, p)
        CCol(i, p) == candy_colors[RandInt(draw, i, 1, 3)]
        SHit(i, p) == SeedHit(draw, i, p)
        SCol(i, p) == IF p[1] = PieceCentre(draw, i, 1, 1)[1]
                      THEN seed_dark ELSE seed_light
        peanuts == Layer(img, 8, PHit, PCol)
        raisins == Layer(peanuts, 12, RHit, RCol)
        candies == Layer(raisins, 10, CHit, CCol)
    IN  Layer(candies, 15, SHit, SCol)

\* Lines 118-135.
draw_ziplock_seal(img, draw) ==
    [p \in Pixels |->
        IF p[1] \in bag_left .. bag_right - 1
        THEN CASE p[2] \in ziplock_y - 1 .. ziplock_y + 1 -> ziplock_seal
               [] p[2] = ziplock_y - 2 /\ Below(draw, p[1]) -> bag_light
               [] p[2] = ziplock_y + 2 /\ Below(draw, p[1]) -> bag_crinkle
               [] OTHER -> img[p]
        ELSE img[p]]

\* Lines 140-147: a vertical crinkle writes p.
VerticalCrinkle(draw, p) ==
    \E i \in 0 .. 2 :
        LET x == 18 + i * 10
        IN  /\ p[2] \in 16 .. 53
            /\ Below(draw, x + p[2])
            /\ (p[1] = x \/ (p[1] = x + 1 /\ x + 1 < ICON_SIZE))

\* Lines 150-156: a diagonal crinkle writes p.
DiagonalCrinkle(draw, p) ==
    \E i \in 0 .. 1 : \E offset \in 0 .. 24 :
        /\ p = <<15 + i * 15 + offset, 17 + offset>>
        /\ Below(draw, i + offset)

\* Lines 137-156.
add_crinkles(img, draw) ==
    [p \in Pixels |->
        IF VerticalCrinkle(draw, p) \/ DiagonalCrinkle(draw, p)
        THEN bag_crinkle ELSE img[p]]

\* Lines 227-237 of trail_mix.
TrailGrain(img, draw) ==
    [p \in Pixels |->
        IF img[p][4] > 0 /\ Below(draw, p[1] + p[2])
        THEN LET noise == RandInt(draw, p[1] + 2 * p[2], -15, 15)
             IN  <<ClipByte(img[p][1] + noise), ClipByte(img[p][2] + noise),
                   ClipByte(img[p][3] + noise), img[p][4]>>
        ELSE img[p]]

\* Lines 242-243 and 248: bayer[y % 2, x % 2] * 30.
BayerThreshold(x, y) ==
    RMul(Rat(<<<<0, 2>>, <<3, 1>>>>[(y % 2) + 1][(x % 2) + 1], 4), RInt(30))

\* Line 251: max(0, c - 10) of a uint8 c.  NumPy before 2.0 computes c - 10
\* in a wider integer, NumPy 2 in uint8 (wrapping below zero).
DitherDarken(c, wraps) ==
    IF c >= 10 THEN c - 10 ELSE IF wraps THEN c - 10 + 256 ELSE 0

\* Lines 239-251.
apply_dithering(img, wraps) ==
    [p \in Pixels |->
        IF img[p][4] > 0
        THEN LET D(c) == IF RLt(RInt(c), BayerThreshold(p[1], p[2]))
                         THEN DitherDarken(c, wraps) ELSE c
             IN  <<D(img[p][1]), D(img[p][2]), D(img[p][3]), img[p][4]>>
        ELSE img[p]]

---------------------------------------------------------------------------
(* baseball_bat: create_baseball_bat                                       *)

\* Lines 22-26: the palette.
BARREL_BASE == <<210, 180, 140>>
HANDLE_BASE == <<139, 90, 43>>
TAPE_COLOR == <<50, 50, 50>>
HIGHLIGHT == <<240, 220, 180>>

\* Lines 77-82: the axis of the bat, handle end first.
start_x == 12
start_y == ICON_SIZE - 12
end_x == ICON_SIZE - 14
end_y == 14

\* Lines 85-88.
HANDLE_WIDTH == RInt(3)
BARREL_WIDTH == RInt(7)
TAPER_START == Rat(3, 10)
TAPER_END == Rat(3, 4)

\* math.sqrt returns multiples of 1 / SqrtRes (rounded down).
SqrtRes == 100

MathSqrt(a) == Rat(ISqrt(ScaleFloor(a, SqrtRes * SqrtRes)), SqrtRes)

\* random.uniform(lo, hi).
Uniform(draw, k, lo, hi) ==
    CASE draw = "low" -> lo
      [] draw = "high" -> hi
      [] OTHER -> RAdd(lo, RMul(RSub(hi, lo), Rat((3 * k) % 5, 4)))

\* Lines 42-67 without the clamp of line 57.
distance_to_line_unclamped(px, py, x1, y1, x2, y2) ==
    LET dx == px - x1
        dy == py - y1
        lx == x2 - x1
        ly == y2 - y1
        line_len_sq == lx * lx + ly * ly
        t == Rat(dx * lx + dy * ly, line_len_sq)
        dist_x == RSub(RInt(px), RAdd(RInt(x1), RMul(t, RInt(lx))))
        dist_y == RSub(RInt(py), RAdd(RInt(y1), RMul(t, RInt(ly))))
        sq == RAdd(RMul(dist_x, dist_x), RMul(dist_y, dist_y))
    IN  [sq |-> sq, dist |-> MathSqrt(sq), t |-> t]

\* Lines 42-67 with max(0, ...) alone on line 57, without min(1, ...).
distance_to_line_open_end(px, py, x1, y1, x2, y2) ==
    LET dx == px - x1
        dy == py - y1
        lx == x2 - x1
        ly == y2 - y1
        line_len_sq == lx * lx + ly * ly
        proj == Rat(dx * lx + dy * ly, line_len_sq)
        t == IF RLt(proj, RInt(0)) THEN RInt(0) ELSE proj
        dist_x == RSub(RInt(px), RAdd(RInt(x1), RMul(t, RInt(lx))))
        dist_y == RSub(RInt(py), RAdd(RInt(y1), RMul(t, RInt(ly))))
        sq == RAdd(RMul(dist_x, dist_x), RMul(dist_y, dist_y))
    IN  IF line_len_sq = 0
        THEN [sq |-> RInt(dx * dx + dy * dy),
              dist |-> MathSqrt(RInt(dx * dx + dy * dy)), t |-> RInt(0)]
        ELSE [sq |-> sq, dist |-> MathSqrt(sq), t |-> t]

\* Lines 42-67: the distance from (px, py) to the segment and the position t
\* of the closest point of the segment.  sq is the square of the distance,
\* exact; dist is math.sqrt of it.
distance_to_line(px, py, x1, y1, x2, y2) ==
    LET dx == px - x1
        dy == py - y1
        lx == x2 - x1
        ly == y2 - y1
        line_len_sq == lx * lx + ly * ly
        t == NpClip(Rat(dx * lx + dy * ly, line_len_sq), RInt(0), RInt(1))
        dist_x == RSub(RInt(px), RAdd(RInt(x1), RMul(t, RInt(lx))))
        dist_y == RSub(RInt(py), RAdd(RInt(y1), RMul(t, RInt(ly))))
        sq == RAdd(RMul(dist_x, dist_x), RMul(dist_y, dist_y))
    IN  IF line_len_sq = 0
        THEN [sq |-> RInt(dx * dx + dy * dy),
              dist |-> MathSqrt(RInt(dx * dx + dy * dy)), t |-> RInt(0)]
        ELSE [sq |-> sq, dist |-> MathSqrt(sq), t |-> t]

\* Line 93.
BatDistance(x, y) == distance_to_line(x, y, start_x, start_y, end_x, end_y)

\* Lines 96-105: the half width of the bat at position t.
BatWidth(t) ==
    IF RLt(t, TAPER_START) THEN HANDLE_WIDTH
    ELSE IF RLt(t, TAPER_END)
         THEN RAdd(HANDLE_WIDTH,
                   RMul(RSub(BARREL_WIDTH, HANDLE_WIDTH),
                        NpDiv(RSub(t, TAPER_START),
                              RSub(TAPER_END, TAPER_START))))
         ELSE BARREL_WIDTH

\* Line 108, dist <= width, decided on the squares.
InsideBat(x, y) ==
    LET d == BatDistance(x, y)
        width == BatWidth(d.t)
    IN  RLe(d.sq, RMul(width, width))

\* Line 134.
tape_zone(t) == RLt(t, Rat(1, 4))

\* Lines 137-138.
band_index(t) == RMul(NpDiv(t, Rat(1, 4)), RInt(12))

\* Line 141 with one segment of tape in three.
in_band_narrow(t) == (RTrunc(band_index(t)) % 3) < 1

\* Line 141.
in_band(t) == (RTrunc(band_index(t)) % 3) < 2

\* Lines 109-150: the colour of a pixel inside the bat.
BatColour(x, y) ==
    LET d == BatDistance(x, y)
        t == d.t
        width == BatWidth(t)
        Base(k) == RTrunc(RAdd(RInt(HANDLE_BASE[k]),
                        RMul(RInt(BARREL_BASE[k] - HANDLE_BASE[k]), t)))
        edge_factor == NpDiv(d.dist, width)
        shade == RSub(RInt(1), RMul(edge_factor, Rat(3, 10)))
        Shaded(k) == RTrunc(RMul(RInt(Base(k)), shade))
        reach == RMul(width, Rat(3, 10))
        highlight_strength ==
            RMul(RSub(RInt(1), NpDiv(d.dist, reach)), Rat(1, 5))
        Lit(k) == IF RLt(d.dist, reach)
                  THEN RTrunc(RAdd(RInt(Shaded(k)),
                           RMul(RInt(HIGHLIGHT[k] - Shaded(k)),
                                highlight_strength)))
                  ELSE Shaded(k)
        tape_shade == RSub(RInt(1), RMul(edge_factor, Rat(1, 5)))
        Tape(k) == RTrunc(RMul(RInt(TAPE_COLOR[k]), tape_shade))
        C(k) == IF tape_zone(t) /\ in_band(t) THEN Tape(k) ELSE Lit(k)
    IN  <<C(1), C(2), C(3), 255>>

\* Lines 90-150: the pixel loop of create_baseball_bat.
BatPixels(img) ==
    [p \in Pixels |->
        IF InsideBat(p[1], p[2]) THEN BatColour(p[1], p[2]) ELSE img[p]]

\* Lines 28-40 of baseball_bat: add_psx_grain(img, intensity).
BatGrain(img, intensity, draw) ==
    [p \in Pixels |->
        IF img[p][4] > 0
        THEN LET noise == Uniform(draw, p[1] + 2 * p[2],
                                  RNeg(intensity), intensity)
                 G(c) == ClipByte(RTrunc(RMul(RInt(c),
                                              RAdd(RInt(1), noise))))
             IN  <<G(img[p][1]), G(img[p][2]), G(img[p][3]), img[p][4]>>
        ELSE img[p]]

\* Lines 156-170: the checkerboard dither of create_baseball_bat.
BatDither(img) ==
    [p \in Pixels |->
        IF img[p][4] > 0
        THEN LET dither == IF (p[1] + p[2]) % 2 = 0 THEN -8 ELSE 8
             IN  <<ClipByte(img[p][1] + dither), ClipByte(img[p][2] + dither),
                   ClipByte(img[p][3] + dither), img[p][4]>>
        ELSE img[p]]

---------------------------------------------------------------------------
(* binoculars: generate_binoculars                                         *)

\* Lines 16-23: the palette.
OLIVE_DARK == <<45, 51, 20>>
OLIVE_MED == <<74, 83, 32>>
OLIVE_LIGHT == <<89, 98, 42>>
RUBBER_DARK == <<35, 38, 18>>
LENS_DARK == <<20, 25, 35>>
LENS_REFLECT == <<100, 130, 160>>
LENS_SHINE == <<180, 200, 220>>
BRIDGE_COLOR == <<40, 45, 22>>

\* (*COLOR, 255): the colour made opaque.
Solid(c) == <<c[1], c[2], c[3], 255>>

\* img_array[y, x, :3] = c: the colour channels replaced, alpha kept.
Recolour(old, c) == <<c[1], c[2], c[3], old[4]>>

\* Lines 86-96.
barrel_radius == 15
barrel_length == 42
lens_radius == 12
left_cx == 22
left_cy == 32
right_cx == 42
right_cy == 32

Max2(a, b) == IF a > b THEN a ELSE b
Min2(a, b) == IF a < b THEN a ELSE b

\* c - k of a uint8 c under max(0, .): NumPy before 2.0 computes c - k in a
\* wider integer, NumPy 2 in uint8 (wrapping below zero).
Uint8Minus(c, k, wraps) ==
    IF c >= k THEN c - k ELSE IF wraps THEN c - k + 256 ELSE 0

\* Lines 44-51.
draw_circle_filled(img, cx, cy, radius, color) ==
    [p \in Pixels |->
        IF /\ p[2] \in Max2(0, cy - radius) ..
                       Min2(ICON_SIZE, cy + radius + 1) - 1
           /\ p[1] \in Max2(0, cx - radius) ..
                       Min2(ICON_SIZE, cx + radius + 1) - 1
           /\ (p[1] - cx) * (p[1] - cx) + (p[2] - cy) * (p[2] - cy)
                  <= radius * radius
        THEN color ELSE img[p]]

\* Lines 53-61.
draw_circle_outline(img, cx, cy, radius, color, thickness) ==
    [p \in Pixels |->
        LET dist_sq == (p[1] - cx) * (p[1] - cx) + (p[2] - cy) * (p[2] - cy)
        IN  IF /\ p[2] \in Max2(0, cy - radius - thickness) ..
                           Min2(ICON_SIZE, cy + radius + thickness + 1) - 1
               /\ p[1] \in Max2(0, cx - radius - thickness) ..
                           Min2(ICON_SIZE, cx + radius + thickness + 1) - 1
               /\ (radius - thickness) * (radius - thickness) <= dist_sq
               /\ dist_sq <= (radius + thickness) * (radius + thickness)
            THEN color ELSE img[p]]

\* Lines 71-77: the test of draw_ellipse_filled on the rotated point.
InEllipse(x, y, cx, cy, rx, ry, angle) ==
    LET cos_a == NpCos(angle)
        sin_a == NpSin(angle)
        dx == RInt(x - cx)
        dy == RInt(y - cy)
        rx_point == RAdd(RMul(dx, cos_a), RMul(dy, sin_a))
        ry_point == RAdd(RMul(RNeg(dx), sin_a), RMul(dy, cos_a))
        u == NpDiv(rx_point, RInt(rx))
        v == NpDiv(ry_point, RInt(ry))
    IN  RLe(RAdd(RMul(u, u), RMul(v, v)), RInt(1))

\* Lines 68-69: the rows and columns draw_ellipse_filled scans.
EllipseWindow(x, y, cx, cy, rx, ry) ==
    /\ y \in Max2(0, cy - ry - 2) .. Min2(ICON_SIZE, cy + ry + 3) - 1
    /\ x \in Max2(0, cx - rx - 2) .. Min2(ICON_SIZE, cx + rx + 3) - 1

\* Lines 63-78.
draw_ellipse_filled(img, cx, cy, rx, ry, color, angle) ==
    [p \in Pixels |->
        IF /\ EllipseWindow(p[1], p[2], cx, cy, rx, ry)
           /\ InEllipse(p[1], p[2], cx, cy, rx, ry, angle)
        THEN color ELSE img[p]]

\* np.pi / 2, the angle of both barrels.
QuarterTurn == NpDiv(NpPi, RInt(2))

\* Lines 100-106.
BarrelBodies(img) ==
    LET left == draw_ellipse_filled(img, left_cx, left_cy, barrel_radius,
                    barrel_length \div 2, Solid(OLIVE_MED), QuarterTurn)
    IN  draw_ellipse_filled(left, right_cx, right_cy, barrel_radius,
            barrel_length \div 2, Solid(OLIVE_MED), QuarterTurn)

\* Lines 111-123: the branch of the if / elif chain that pixel p of img
\* takes (0: none).
ShadeBranch(img, p) ==
    LET x == p[1]
        y == p[2]
        half == barrel_length \div 2
    IN  IF img[p][4] > 0
        THEN CASE x < left_cx - 4 /\ Abs(y - left_cy) < half -> 1
               [] ~(x < left_cx - 4 /\ Abs(y - left_cy) < half)
                  /\ x > left_cx + 4 /\ Abs(y - left_cy) < half -> 2
               [] ~(x < left_cx - 4 /\ Abs(y - left_cy) < half)
                  /\ ~(x > left_cx + 4 /\ Abs(y - left_cy) < half)
                  /\ x < right_cx - 4 /\ Abs(y - right_cy) < half -> 3
               [] ~(x < left_cx - 4 /\ Abs(y - left_cy) < half)
                  /\ ~(x > left_cx + 4 /\ Abs(y - left_cy) < half)
                  /\ ~(x < right_cx - 4 /\ Abs(y - right_cy) < half)
                  /\ x > right_cx + 4 /\ Abs(y - right_cy) < half -> 4
               [] OTHER -> 0
        ELSE 0

\* Lines 109-123.
BarrelShading(img) ==
    [p \in Pixels |->
        CASE ShadeBranch(img, p) \in {1, 3} -> Recolour(img[p], OLIVE_DARK)
          [] ShadeBranch(img, p) \in {2, 4} -> Recolour(img[p], OLIVE_LIGHT)
          [] OTHER -> img[p]]

\* Lines 126-134.  A pixel of a band row that lies in the columns of both
\* barrels is darkened twice.
RubberBands(img, wraps) ==
    [p \in Pixels |->
        LET rows == {left_cy - barrel_length \div 2 + 8 + band_y * 8 :
                         band_y \in 0 .. 3}
            inLeft == p[1] \in left_cx - barrel_radius ..
                               left_cx + barrel_radius - 1
            inRight == p[1] \in right_cx - barrel_radius ..
                                right_cx + barrel_radius - 1
            D(c) == Uint8Minus(c, 10, wraps)
            Once(q) == <<D(q[1]), D(q[2]), D(q[3]), q[4]>>
            first_loop == IF inLeft THEN Once(img[p]) ELSE img[p]
        IN  IF p[2] \in rows /\ img[p][4] > 0
            THEN IF inRight THEN Once(first_loop) ELSE first_loop
            ELSE img[p]]

\* Line 138.
bridge_height == 8

\* Lines 137-150.
Bridge(img) ==
    [p \in Pixels |->
        IF p[1] \in left_cx .. right_cx
        THEN CASE p[2] = left_cy - bridge_height \div 2 -> Solid(RUBBER_DARK)
               [] p[2] \in left_cy - bridge_height \div 2 ..
                           left_cy + bridge_height \div 2 - 1
                    -> Solid(BRIDGE_COLOR)
               [] OTHER -> img[p]
        ELSE img[p]]

\* Lines 172-197: the 3x3 bright spot of the lens centred at (cx, cy).
LensShine(img, cx, cy) ==
    [p \in Pixels |->
        LET x == p[1] - (cx - 4)
            y == p[2] - (cy - 4)
        IN  IF x \in 0 .. 2 /\ y \in 0 .. 2
            THEN IF x = 1 /\ y = 1 THEN <<255, 255, 255, 255>>
                 ELSE Solid(LENS_SHINE)
            ELSE img[p]]

\* Lines 154-203.
Lenses(img) ==
    LET ly == left_cy - barrel_length \div 2 + 2
        ry == right_cy - barrel_length \div 2 + 2
        a == draw_circle_filled(img, left_cx, ly, lens_radius,
                                Solid(LENS_DARK))
        b == draw_circle_filled(a, right_cx, ry, lens_radius,
                                Solid(LENS_DARK))
        c == draw_circle_filled(b, left_cx, ly, lens_radius - 2,
                                Solid(LENS_REFLECT))
        d == draw_circle_filled(c, right_cx, ry, lens_radius - 2,
                                Solid(LENS_REFLECT))
        e == LensShine(d, left_cx, ly)
        f == LensShine(e, right_cx, ry)
        g == draw_circle_outline(f, left_cx, ly, lens_radius,
                                 Solid(RUBBER_DARK), 1)
    IN  draw_circle_outline(g, right_cx, ry, lens_radius,
                            Solid(RUBBER_DARK), 1)

\* Line 206.
eyecup_radius == 9

\* Lines 208-218.
Eyecups(img) ==
    LET ly == left_cy + barrel_length \div 2 - 2
        ry == right_cy + barrel_length \div 2 - 2
        a == draw_circle_filled(img, left_cx, ly, eyecup_radius,
                                Solid(RUBBER_DARK))
        b == draw_circle_filled(a, left_cx, ly, eyecup_radius - 2,
                                Solid(OLIVE_DARK))
        c == draw_circle_filled(b, right_cx, ry, eyecup_radius,
                                Solid(RUBBER_DARK))
    IN  draw_circle_filled(c, right_cx, ry, eyecup_radius - 2,
                           Solid(OLIVE_DARK))

\* Lines 224-229: the start, the length and the direction of scratch i;
\* random.random() * 2 * np.pi is a multiple of an eighth of a turn.
Scratch(draw, i) ==
    [sx |-> RandInt(draw, i, 0, ICON_SIZE - 1),
     sy |-> RandInt(draw, i + 2, 0, ICON_SIZE - 1),
     length |-> RandInt(draw, i, 3, 7),
     angle |-> RMul(Rat(RandInt(draw, i, 0, 7), 8), RMul(RInt(2), NpPi))]

\* Lines 230-232: the pixel of step k of a scratch.
ScratchPixel(s, k) ==
    <<RTrunc(RAdd(RInt(s.sx), RMul(RInt(k), NpCos(s.angle)))),
      RTrunc(RAdd(RInt(s.sy), RMul(RInt(k), NpSin(s.angle))))>>

\* Lines 226-232: the steps <<i, k, pixel>> of the scratches that start on a
\* non-transparent pixel of img.
ScratchWrites(img, draw) ==
    {<<ik[1], ik[2], ScratchPixel(Scratch(draw, ik[1]), ik[2])>> :
        ik \in {jk \in (0 .. 24) \X (0 .. 6) :
                  LET s == Scratch(draw, jk[1])
                  IN  jk[2] < s.length /\ img[<<s.sx, s.sy>>][4] > 0}}

\* Lines 223-238.  The scratches change no alpha, so the tests of lines 226
\* and 233 see the alpha of the image the loop started with; the last step
\* that writes a pixel decides its colour.
Scratches(img, draw) ==
    LET writes == ScratchWrites(img, draw)
    IN  [p \in Pixels |->
            LET mine == {w \in writes : w[3] = p}
                last == CHOOSE w \in mine : \A v \in mine :
                            v[1] < w[1] \/ (v[1] = w[1] /\ v[2] <= w[2])
            IN  IF mine = {} \/ img[p][4] = 0 THEN img[p]
                ELSE Recolour(img[p], IF Below(draw, last[1] + last[2])
                                      THEN OLIVE_LIGHT ELSE RUBBER_DARK)]

\* Lines 243-244: the centre of scuff n (0 .. 2 left barrel, 3 .. 5 right).
ScuffCentre(draw, n) ==
    <<(IF n < 3 THEN left_cx ELSE right_cx) + RandInt(draw, n, -5, 5),
      RandInt(draw, n + 1, left_cy - 10, left_cy + 10)>>

\* Lines 241-249: the first n scuff marks.
RECURSIVE Scuffs(_, _, _, _)
Scuffs(img, draw, wraps, n) ==
    IF n = 0 THEN img
    ELSE LET before == Scuffs(img, draw, wraps, n - 1)
             c == ScuffCentre(draw, n - 1)
             D(v) == Uint8Minus(v, 20, wraps)
         IN  [p \in Pixels |->
                 IF /\ p[1] - c[1] \in -1 .. 1
                    /\ p[2] - c[2] \in -1 .. 1
                    /\ before[p][4] > 0
                 THEN <<D(before[p][1]), D(before[p][2]),
                        D(before[p][3]), before[p][4]>>
                 ELSE before[p]]

\* Lines 220-249.
Weathering(img, draw, wraps) == Scuffs(Scratches(img, draw), draw, wraps, 6)

\* np.random.normal(0, intensity) at index k.
Normal(draw, k, intensity) ==
    RMul(intensity, Rat(RandInt(draw, k, -2, 2), 1))

\* Lines 25-29 of binoculars: every pixel's colour channels, transparent
\* pixels included, get grain * 255 added, are clipped and cut to uint8.
BinoGrain(img, intensity, draw) ==
    [p \in Pixels |->
        LET G(c, k) ==
                RTrunc(NpClip(RAdd(RInt(c),
                           RMul(Normal(draw, 3 * (p[1] + 2 * p[2]) + k,
                                       intensity), RInt(255))),
                       RInt(0), RInt(255)))
        IN  <<G(img[p][1], 0), G(img[p][2], 1), G(img[p][3], 2), img[p][4]>>]

\* Lines 31-42.
add_dither(img, strength, draw) ==
    [p \in Pixels |->
        LET threshold == ((p[1] % 2) + (p[2] % 2)) * strength
            D(c, k) ==
                IF Below(draw, p[1] + p[2] + k)
                THEN ClipByte(c + RandInt(draw, p[1] + k,
                                          -threshold, threshold))
                ELSE c
        IN  IF img[p][4] > 0
            THEN <<D(img[p][1], 0), D(img[p][2], 1), D(img[p][3], 2),
                   img[p][4]>>
            ELSE img[p]]

---------------------------------------------------------------------------
(* hazmat_suit: draw_hazmat_suit                                           *)

\* Lines 19-23: the palette.
YELLOW_SUIT == <<200, 180, 80>>
YELLOW_DARK == <<150, 130, 50>>
GRAY_HELMET == <<180, 180, 180>>
GRAY_DARK == <<120, 120, 120>>
VISOR_DARK == <<60, 60, 60>>

\* Lines 46-52, 69-71 and 86-88.
center_x == ICON_SIZE \div 2
helmet_width == 20
helmet_height == 18
helmet_top == 6
helmet_bottom == helmet_top + helmet_height
visor_width == 16
visor_height == 8
visor_top == helmet_top + 5
filter_width == 4
filter_height == 6
filter_y == helmet_top + 8

\* Lines 105-107, 115-117, 125 and 139-141.
collar_width == 22
collar_height == 5
collar_top == helmet_bottom - 1
body_width == 32
body_height == 30
body_top == collar_top + collar_height
shadow_width == 10
arm_width == 10
arm_height == 28
arm_top == body_top + 2

\* Lines 165-166, 183, 199-201, 216, 231-233 and 254-255.
glove_height == 6
glove_top == arm_top + arm_height
strap_width == 4
tank_width == 12
tank_height == 20
tank_top == body_top + 6
hose_width == 3
leg_width == 12
leg_height == 10
leg_top == body_top + body_height
boot_height == 4
boot_top == leg_top + leg_height

\* The calls of ImageDraw, with their arguments.
Ellipse(x0, y0, x1, y1, fill) ==
    [kind |-> "ellipse", xy |-> <<x0, y0, x1, y1>>, fill |-> fill,
     width |-> 0]
Rectangle(x0, y0, x1, y1, fill) ==
    [kind |-> "rectangle", xy |-> <<x0, y0, x1, y1>>, fill |-> fill,
     width |-> 0]
Line(x0, y0, x1, y1, fill, width) ==
    [kind |-> "line", xy |-> <<x0, y0, x1, y1>>, fill |-> fill,
     width |-> width]
Polygon(xy, fill) ==
    [kind |-> "polygon", xy |-> xy, fill |-> fill, width |-> 0]

\* Lines 55-269: the shapes draw_hazmat_suit draws, in its order.
HazmatShapes ==
    <<Ellipse(center_x - helmet_width \div 2, helmet_top,
              center_x + helmet_width \div 2, helmet_bottom, GRAY_HELMET),
      Ellipse(center_x + 2, helmet_top,
              center_x + helmet_width \div 2, helmet_bottom, GRAY_DARK),
      Ellipse(center_x - visor_width \div 2, visor_top,
              center_x + visor_width \div 2, visor_top + visor_height,
              VISOR_DARK),
      Ellipse(center_x - visor_width \div 2 + 2, visor_top + 1,
              center_x - visor_width \div 2 + 5, visor_top + 3,
              <<100, 100, 100>>),
      Rectangle(center_x - helmet_width \div 2 - 2, filter_y,
                center_x - helmet_width \div 2 + filter_width - 2,
                filter_y + filter_height, GRAY_DARK),
      Rectangle(center_x + helmet_width \div 2 - filter_width + 2, filter_y,
                center_x + helmet_width \div 2 + 2,
                filter_y + filter_height, GRAY_DARK),
      Rectangle(center_x - collar_width \div 2, collar_top,
                center_x + collar_width \div 2, collar_top + collar_height,
                GRAY_DARK),
      Rectangle(center_x - body_width \div 2, body_top,
                center_x + body_width \div 2, body_top + body_height,
                YELLOW_SUIT),
      Rectangle(center_x + body_width \div 2 - shadow_width, body_top,
                center_x + body_width \div 2, body_top + body_height,
                YELLOW_DARK),
      Line(center_x, body_top, center_x, body_top + body_height,
           YELLOW_DARK, 2),
      Rectangle(center_x - body_width \div 2 - arm_width, arm_top,
                center_x - body_width \div 2, arm_top + arm_height,
                YELLOW_SUIT),
      Rectangle(center_x - body_width \div 2 - arm_width, arm_top,
                center_x - body_width \div 2 - arm_width + 4,
                arm_top + arm_height, YELLOW_DARK),
      Rectangle(center_x + body_width \div 2, arm_top,
                center_x + body_width \div 2 + arm_width,
                arm_top + arm_height, YELLOW_DARK),
      Rectangle(center_x - body_width \div 2 - arm_width, glove_top,
                center_x - body_width \div 2, glove_top + glove_height,
                GRAY_DARK),
      Rectangle(center_x + body_width \div 2, glove_top,
                center_x + body_width \div 2 + arm_width,
                glove_top + glove_height, <<80, 80, 80>>),
      Line(center_x - body_width \div 2 + 4, body_top + 2,
           center_x + body_width \div 2 - 8, body_top + body_height - 4,
           GRAY_DARK, strap_width),
      Line(center_x + body_width \div 2 - 4, body_top + 2,
           center_x - body_width \div 2 + 8, body_top + body_height - 4,
           GRAY_DARK, strap_width),
      Rectangle(center_x - tank_width \div 2, tank_top,
                center_x + tank_width \div 2, tank_top + tank_height,
                GRAY_DARK),
      Rectangle(center_x - tank_width \div 2 + 1, tank_top,
                center_x - tank_width \div 2 + 3, tank_top + tank_height,
                GRAY_HELMET),
      Line(center_x - 4, collar_top + collar_height,
           center_x - 2, tank_top + 2, GRAY_DARK, hose_width),
      Rectangle(center_x - 3, tank_top - 2, center_x + 3, tank_top + 2,
                <<80, 80, 80>>),
      Polygon(<<<<center_x - body_width \div 2 + 6, leg_top>>,
                <<center_x - 1, leg_top>>,
                <<center_x - 3, leg_top + leg_height>>,
                <<center_x - body_width \div 2 + 4, leg_top + leg_height>>>>,
              YELLOW_SUIT),
      Polygon(<<<<center_x + 1, leg_top>>,
                <<center_x + body_width \div 2 - 6, leg_top>>,
                <<center_x + body_width \div 2 - 4, leg_top + leg_height>>,
                <<center_x + 3, leg_top + leg_height>>>>,
              YELLOW_DARK),
      Rectangle(center_x - body_width \div 2 + 4, boot_top,
                center_x - 3, boot_top + boot_height, GRAY_DARK),
      Rectangle(center_x + 3, boot_top,
                center_x + body_width \div 2 - 4, boot_top + boot_height,
                <<80, 80, 80>>)>>

\* Which side of the edge from a to b the pixel p is on.
Side(a, b, p) ==
    Sgn((b[1] - a[1]) * (p[2] - a[2]) - (b[2] - a[2]) * (p[1] - a[1]))

\* PIL's rasterizer: the pixels of the canvas a shape covers.  A rectangle
\* includes both corners; an ellipse is the one inscribed in its box; a line
\* of width w is the pixels beside the segment and within w / 2 of it; a
\* polygon (convex here) is the pixels on one side of all its edges.
Covers(shape, p) ==
    LET xy == shape.xy
    IN  CASE shape.kind = "rectangle" ->
               /\ xy[1] <= p[1] /\ p[1] <= xy[3]
               /\ xy[2] <= p[2] /\ p[2] <= xy[4]
          [] shape.kind = "ellipse" ->
               LET u == Rat(2 * p[1] - xy[1] - xy[3], xy[3] - xy[1])
                   v == Rat(2 * p[2] - xy[2] - xy[4], xy[4] - xy[2])
               IN  RLe(RAdd(RMul(u, u), RMul(v, v)), RInt(1))
          [] shape.kind = "line" ->
               LET lx == xy[3] - xy[1]
                   ly == xy[4] - xy[2]
                   along == (p[1] - xy[1]) * lx + (p[2] - xy[2]) * ly
                   across == (p[1] - xy[1]) * ly - (p[2] - xy[2]) * lx
               IN  /\ 0 <= along /\ along <= lx * lx + ly * ly
                   /\ 4 * across * across
                          <= shape.width * shape.width * (lx * lx + ly * ly)
          [] OTHER ->
               LET sides == {Side(xy[k], xy[(k % Len(xy)) + 1], p) :
                                 k \in 1 .. Len(xy)}
               IN  ~({-1, 1} \subseteq sides)

\* Lines 42-269: the image before the grain.
HazmatDrawing(img) ==
    LET Hit(i, p) == Covers(HazmatShapes[i + 1], p)
        Col(i, p) == Solid(HazmatShapes[i + 1].fill)
    IN  Layer(img, Len(HazmatShapes), Hit, Col)

\* add_grain without the test a > 0 of line 32.
HazmatGrainUnguarded(img, intensity, draw) ==
    [p \in Pixels |->
        LET noise == RandInt(draw, p[1] + 2 * p[2], -intensity, intensity)
        IN  <<ClipByte(img[p][1] + noise), ClipByte(img[p][2] + noise),
              ClipByte(img[p][3] + noise), img[p][4]>>]

\* Lines 26-37 of hazmat_suit: add_grain(img, intensity).
HazmatGrain(img, intensity, draw) ==
    [p \in Pixels |->
        IF img[p][4] > 0
        THEN LET noise == RandInt(draw, p[1] + 2 * p[2],
                                  -intensity, intensity)
             IN  <<ClipByte(img[p][1] + noise), ClipByte(img[p][2] + noise),
                   ClipByte(img[p][3] + noise), img[p][4]>>
        ELSE img[p]]

---------------------------------------------------------------------------
(* coachs_whistle: generate_whistle                                        *)

\* Lines 17-27: COLORS.
chrome_darkest == <<40, 45, 50, 255>>
chrome_dark == <<80, 85, 90, 255>>
chrome_mid == <<140, 145, 150, 255>>
chrome_light == <<200, 205, 210, 255>>
chrome_highlight == <<255, 255, 255, 255>>
lanyard_dark == <<140, 20, 20, 255>>
lanyard_mid == <<200, 30, 30, 255>>
lanyard_light == <<230, 80, 80, 255>>

\* Lines 44-56 and 102.
tube_center_x == ICON_SIZE \div 2
tube_center_y == ICON_SIZE \div 2 + 2
tube_radius == 6
chamber_x == tube_center_x + 16
chamber_radius == 9
mouth_x == tube_center_x - 20
mouth_width == 4
mouth_height == 10
opening_radius == 3

\* Lines 135-137.
ring_x == tube_center_x + 4
ring_y == tube_center_y - tube_radius - 3
ring_radius == 3

\* Lines 59-75: the main tube.
Tube(img) ==
    [p \in Pixels |->
        LET dy == p[2] - tube_center_y
        IN  IF /\ p[1] \in tube_center_x - 18 .. tube_center_x + 13
               /\ p[2] \in tube_center_y - tube_radius ..
                           tube_center_y + tube_radius
            THEN CASE dy < -2 -> chrome_highlight
                   [] dy >= -2 /\ dy < 0 -> chrome_light
                   [] dy >= 0 /\ dy < 2 -> chrome_mid
                   [] OTHER -> chrome_dark
            ELSE img[p]]

\* Lines 78-99: the pea chamber.
Chamber(img) ==
    [p \in Pixels |->
        LET dx == p[1] - chamber_x
            dy == p[2] - tube_center_y
        IN  IF /\ dx \in -chamber_radius .. chamber_radius
               /\ dy \in -chamber_radius .. chamber_radius
               /\ dx * dx + dy * dy <= chamber_radius * chamber_radius
            THEN CASE dy < -4 -> chrome_highlight
                   [] dy >= -4 /\ dy < -1 -> chrome_light
                   [] dy >= -1 /\ dy < 3 -> chrome_mid
                   [] OTHER -> chrome_dark
            ELSE img[p]]

\* Lines 102-114: the opening of the pea chamber.
Opening(img) ==
    [p \in Pixels |->
        LET dx == p[1] - chamber_x
            dy == p[2] - tube_center_y
        IN  IF /\ dx \in -opening_radius .. opening_radius
               /\ dy \in -opening_radius .. opening_radius
               /\ dx * dx + dy * dy <= opening_radius * opening_radius
            THEN chrome_darkest ELSE img[p]]

\* Lines 117-132: the mouthpiece.
Mouthpiece(img) ==
    [p \in Pixels |->
        LET dy == p[2] - tube_center_y
        IN  IF /\ p[2] \in tube_center_y - mouth_height \div 2 ..
                           tube_center_y + mouth_height \div 2
               /\ p[1] \in mouth_x .. mouth_x + mouth_width - 1
            THEN CASE Abs(dy) < 2 -> chrome_light
                   [] Abs(dy) >= 2 /\ Abs(dy) < 4 -> chrome_mid
                   [] OTHER -> chrome_dark
            ELSE img[p]]

\* Lines 140-151: the lanyard ring.
Ring(img) ==
    [p \in Pixels |->
        LET dx == p[1] - ring_x
            dy == p[2] - ring_y
            d2 == dx * dx + dy * dy
        IN  IF /\ dx \in -ring_radius .. ring_radius
               /\ dy \in -ring_radius .. ring_radius
               /\ (ring_radius - 1) * (ring_radius - 1) <= d2
               /\ d2 <= ring_radius * ring_radius
            THEN chrome_mid ELSE img[p]]

\* Lines 38-153.
draw_whistle_body(img) == Ring(Mouthpiece(Opening(Chamber(Tube(img)))))

\* Lines 161 and 196.
num_points == 30
max_steps == 100

\* Lines 164-176: point i of the quadratic Bezier curve, cut to integers.
LanyardPoint(i) ==
    LET t == Rat(i, num_points - 1)
        u == RSub(RInt(1), t)
        B(p0, p1, p2) ==
            RAdd(RAdd(RMul(RMul(u, u), RInt(p0)),
                      RMul(RMul(RMul(RInt(2), u), t), RInt(p1))),
                 RMul(RMul(t, t), RInt(p2)))
    IN  <<RTrunc(B(ring_x, ring_x + 8, ring_x + 20)),
          RTrunc(B(ring_y, ring_y - 12, ring_y - 16))>>

\* Lines 188-222: the positions the loop of one segment visits, in the order
\* it visits them; a state of the loop is <<x, y, err, steps>>.
LineWalk(from, to) ==
    LET dx == Abs(to[1] - from[1])
        dy == Abs(to[2] - from[2])
        sx == IF from[1] < to[1] THEN 1 ELSE -1
        sy == IF from[2] < to[2] THEN 1 ELSE -1
        walk[s \in Int \X Int \X Int \X Nat] ==
            LET stepX == 2 * s[3] > -dy
                stepY == 2 * s[3] < dx
            IN  IF s[4] >= max_steps THEN <<>>
                ELSE IF s[1] = to[1] /\ s[2] = to[2] THEN <<<<s[1], s[2]>>>>
                ELSE <<<<s[1], s[2]>>>> \o
                     walk[<<IF stepX THEN s[1] + sx ELSE s[1],
                            IF stepY THEN s[2] + sy ELSE s[2],
                            s[3] - (IF stepX THEN dy ELSE 0)
                                 + (IF stepY THEN dx ELSE 0),
                            s[4] + 1>>]
    IN  walk[<<from[1], from[2], dx - dy, 0>>]

\* Lines 189-196: the loop's variables when it is entered for the segment
\* from (x1, y1) to (x2, y2).
LineStart(from, to) ==
    [pc |-> "loop", from |-> from, to |-> to,
     x |-> from[1], y |-> from[2],
     err |-> Abs(to[1] - from[1]) - Abs(to[2] - from[2]), steps |-> 0]

\* Lines 215-222 with the test of line 219 made against 0 instead of dx.
LineAdvanceLateY(line) ==
    LET dx == Abs(line.to[1] - line.from[1])
        dy == Abs(line.to[2] - line.from[2])
        sx == IF line.from[1] < line.to[1] THEN 1 ELSE -1
        sy == IF line.from[2] < line.to[2] THEN 1 ELSE -1
        e2 == 2 * line.err
        stepX == e2 > -dy
        stepY == e2 < 0
    IN  [line EXCEPT !.x = IF stepX THEN line.x + sx ELSE line.x,
                     !.y = IF stepY THEN line.y + sy ELSE line.y,
                     !.err = line.err - (IF stepX THEN dy ELSE 0)
                                      + (IF stepY THEN dx ELSE 0),
                     !.steps = line.steps + 1]

\* Lines 215-222: the end of one iteration that did not break.
LineAdvance(line) ==
    LET dx == Abs(line.to[1] - line.from[1])
        dy == Abs(line.to[2] - line.from[2])
        sx == IF line.from[1] < line.to[1] THEN 1 ELSE -1
        sy == IF line.from[2] < line.to[2] THEN 1 ELSE -1
        e2 == 2 * line.err
        stepX == e2 > -dy
        stepY == e2 < dx
    IN  [line EXCEPT !.x = IF stepX THEN line.x + sx ELSE line.x,
                     !.y = IF stepY THEN line.y + sy ELSE line.y,
                     !.err = line.err - (IF stepX THEN dy ELSE 0)
                                      + (IF stepY THEN dx ELSE 0),
                     !.steps = line.steps + 1]

\* Lines 198-222: one test of the while condition and, when it holds, one
\* iteration of the body.
LineIterate(line) ==
    IF ~(line.steps < max_steps) THEN [line EXCEPT !.pc = "cap"]
    ELSE IF line.x = line.to[1] /\ line.y = line.to[2]
         THEN [line EXCEPT !.pc = "break"]
         ELSE LineAdvance(line)

\* Line 184: the offsets of the thick cord, in the order they are drawn.
CordOffsets == <<<<-1, 0>>, <<0, 0>>, <<1, 0>>, <<0, -1>>, <<0, 1>>>>

\* Lines 202-207.
CordColour(o) ==
    IF o[1] = -1 \/ o[2] = -1 THEN lanyard_light
    ELSE IF o[1] = 1 \/ o[2] = 1 THEN lanyard_dark
    ELSE lanyard_mid

\* Lines 179-209: the writes <<segment, offset, pixel>> of the cord.
CordWrites ==
    UNION {LET walk == LineWalk(LanyardPoint(i - 1), LanyardPoint(i))
           IN  {<<i, j, <<walk[k][1] + CordOffsets[j][1],
                          walk[k][2] + CordOffsets[j][2]>>>> :
                    j \in 1 .. 5, k \in 1 .. Len(walk)}
           : i \in 1 .. num_points - 1}

\* The pixels of the canvas the cord is written to (line 200).
CordPixels == {w[3] : w \in CordWrites} \cap Pixels

\* Lines 155-222: the last write to a pixel decides it.
draw_lanyard(img) ==
    [p \in Pixels |->
        IF p \in CordPixels
        THEN LET mine == {w \in CordWrites : w[3] = p}
                 last == CHOOSE w \in mine : \A v \in mine :
                             v[1] < w[1] \/ (v[1] = w[1] /\ v[2] <= w[2])
             IN  CordColour(CordOffsets[last[2]])
        ELSE img[p]]

\* Lines 29-36 of coachs_whistle: add_psx_grain(img_array, intensity).  The
\* noise is added to the colour channels of every pixel, transparent ones
\* included; the noise of the alpha channel is set to 0.
WhistleGrain(img, intensity, draw) ==
    [p \in Pixels |->
        LET G(c, k) == ClipByte(c + RandInt(draw, p[1] + 2 * p[2] + k,
                                            -intensity, intensity))
        IN  <<G(img[p][1], 0), G(img[p][2], 1), G(img[p][3], 2), img[p][4]>>]

---------------------------------------------------------------------------
(* The icon scripts' main functions                                        *)

\* The layers of generate_texture with the grain run before the crinkles.
TrailMixPassesGrainEarly ==
    <<"draw_bag_shape", "draw_trail_mix_pieces", "draw_ziplock_seal",
      "add_psx_grain", "add_crinkles", "apply_dithering", "save">>

\* trail_mix lines 262-286: the layers of generate_texture, in the order it
\* runs them.
TrailMixPasses ==
    <<"draw_bag_shape", "draw_trail_mix_pieces", "draw_ziplock_seal",
      "add_crinkles", "add_psx_grain", "apply_dithering", "save">>

\* baseball_bat lines 90-179: create_baseball_bat and the save of main.
BatPasses ==
    <<"bat_pixels", "add_psx_grain", "checkerboard_dither", "save">>

\* binoculars lines 98-268: the sections of generate_binoculars and the save
\* of main.
BinocularsPasses ==
    <<"barrel_bodies", "barrel_shading", "rubber_bands", "bridge", "lenses",
      "eyecups", "weathering", "add_grain", "add_dither", "save">>

\* hazmat_suit lines 42-283: draw_hazmat_suit and the save of main.
HazmatPasses == <<"hazmat_shapes", "add_grain", "save">>

\* coachs_whistle lines 227-254: generate_whistle and the save of main.
WhistlePasses ==
    <<"draw_whistle_body", "draw_lanyard", "add_psx_grain", "save">>

IconScripts ==
    {"trail_mix", "baseball_bat", "binoculars", "hazmat_suit",
     "coachs_whistle"}

Passes(s) ==
    CASE s = "trail_mix" -> TrailMixPasses
      [] s = "baseball_bat" -> BatPasses
      [] s = "binoculars" -> BinocularsPasses
      [] s = "hazmat_suit" -> HazmatPasses
      [] s = "coachs_whistle" -> WhistlePasses
      [] OTHER -> <<>>

\* Script s is about to run the pass called name.
AtPass(s, name) ==
    /\ script = s
    /\ icon.step <= Len(Passes(s))
    /\ Passes(s)[icon.step] = name

\* The pass called name has run and left the image new.
Ran(name, new) ==
    /\ canvas' = new
    /\ icon' = [icon EXCEPT !.step = icon.step + 1,
                            !.done = Append(icon.done, name),
                            !.touched = IF canvas' = canvas THEN 0
                                        ELSE Cardinality(
                                                 Changed(canvas, canvas'))]
    /\ UNCHANGED <<script, perm, tn, gt, sky, fields, img_array, nan_cast,
                   first, calls, snow>>

Trail_Bag ==
    /\ AtPass("trail_mix", "draw_bag_shape")
    /\ Ran("draw_bag_shape", draw_bag_shape(canvas, icon.draw))

Trail_Pieces ==
    /\ AtPass("trail_mix", "draw_trail_mix_pieces")
    /\ Ran("draw_trail_mix_pieces", draw_trail_mix_pieces(canvas, icon.draw))

Trail_Seal ==
    /\ AtPass("trail_mix", "draw_ziplock_seal")
    /\ Ran("draw_ziplock_seal", draw_ziplock_seal(canvas, icon.draw))

Trail_Crinkles ==
    /\ AtPass("trail_mix", "add_crinkles")
    /\ Ran("add_crinkles", add_crinkles(canvas, icon.draw))

Trail_Grain ==
    /\ AtPass("trail_mix", "add_psx_grain")
    /\ Ran("add_psx_grain", TrailGrain(canvas, icon.draw))

Trail_Dither ==
    /\ AtPass("trail_mix", "apply_dithering")
    /\ \E wraps \in BOOLEAN :
           Ran("apply_dithering", apply_dithering(canvas, wraps))

Bat_Pixels ==
    /\ AtPass("baseball_bat", "bat_pixels")
    /\ Ran("bat_pixels", BatPixels(canvas))

\* Line 153: add_psx_grain(img, intensity=0.18).
Bat_Grain ==
    /\ AtPass("baseball_bat", "add_psx_grain")
    /\ Ran("add_psx_grain", BatGrain(canvas, Rat(18, 100), icon.draw))

Bat_Dither ==
    /\ AtPass("baseball_bat", "checkerboard_dither")
    /\ Ran("checkerboard_dither", BatDither(canvas))

Bino_Bodies ==
    /\ AtPass("binoculars", "barrel_bodies")
    /\ Ran("barrel_bodies", BarrelBodies(canvas))

Bino_Shading ==
    /\ AtPass("binoculars", "barrel_shading")
    /\ Ran("barrel_shading", BarrelShading(canvas))

Bino_Bands ==
    /\ AtPass("binoculars", "rubber_bands")
    /\ \E wraps \in BOOLEAN : Ran("rubber_bands", RubberBands(canvas, wraps))

Bino_Bridge ==
    /\ AtPass("binoculars", "bridge")
    /\ Ran("bridge", Bridge(canvas))

Bino_Lenses ==
    /\ AtPass("binoculars", "lenses")
    /\ Ran("lenses", Lenses(canvas))

Bino_Eyecups ==
    /\ AtPass("binoculars", "eyecups")
    /\ Ran("eyecups", Eyecups(canvas))

Bino_Weathering ==
    /\ AtPass("binoculars", "weathering")
    /\ \E wraps \in BOOLEAN :
           Ran("weathering", Weathering(canvas, icon.draw, wraps))

\* Line 252: add_grain(img_array, intensity=0.06).
Bino_Grain ==
    /\ AtPass("binoculars", "add_grain")
    /\ Ran("add_grain", BinoGrain(canvas, Rat(6, 100), icon.draw))

\* Line 253: add_dither(img_array, strength=3).
Bino_Dither ==
    /\ AtPass("binoculars", "add_dither")
    /\ Ran("add_dither", add_dither(canvas, 3, icon.draw))

Hazmat_Shapes ==
    /\ AtPass("hazmat_suit", "hazmat_shapes")
    /\ Ran("hazmat_shapes", HazmatDrawing(canvas))

\* Line 272: add_grain(img, intensity=12).
Hazmat_Grain ==
    /\ AtPass("hazmat_suit", "add_grain")
    /\ Ran("add_grain", HazmatGrain(canvas, 12, icon.draw))

Whistle_Body ==
    /\ AtPass("coachs_whistle", "draw_whistle_body")
    /\ Ran("draw_whistle_body", draw_whistle_body(canvas))

Whistle_Lanyard ==
    /\ AtPass("coachs_whistle", "draw_lanyard")
    /\ Ran("draw_lanyard", draw_lanyard(canvas))

\* Line 237: add_psx_grain(img_array, intensity=6).
Whistle_Grain ==
    /\ AtPass("coachs_whistle", "add_psx_grain")
    /\ Ran("add_psx_grain", WhistleGrain(canvas, 6, icon.draw))

\* final_img.save(output_path) / img.save(OUTPUT_PATH) of each script.
Icon_Save ==
    /\ script \in IconScripts
    /\ AtPass(script, "save")
    /\ Ran("save", canvas)

---------------------------------------------------------------------------
(* The specifications *)

Init ==
    /\ script \in {"api", "dark_sky"}
    /\ perm \in 0 .. MaxSeed
    /\ tn = TNIdle
    /\ gt = GTIdle
    /\ sky = SkyStart
    /\ fields = FieldsStart
    /\ img_array = [c \in Cells |-> <<0, 0, 0>>]
    /\ nan_cast = [seen |-> FALSE, byte |-> 0]
    /\ first = [set |-> FALSE]
    /\ calls = 0
    /\ snow = SnowStart
    /\ canvas = Blank
    /\ icon = IconStart

Next ==
    \/ Api_CallToroidal
    \/ Api_CallTileable
    \/ TN_Octave
    \/ TN_Return
    \/ GT_Cell
    \/ GT_NextOctave
    \/ GT_Return
    \/ Sky_Begin
    \/ Sky_CallCell
    \/ Sky_StoreCell
    \/ Sky_NormalizeLayer
    \/ Sky_Combine
    \/ Sky_NormalizeCombined
    \/ Sky_Power
    \/ Sky_Paint
    \/ Sky_Save

Spec == Init /\ [][Next]_vars

\* snow_dirt's main, from its first line to the saved image.
SnowInit ==
    /\ script = "snow_dirt"
    /\ perm = 0
    /\ tn = TNIdle
    /\ gt = GTIdle
    /\ sky = SkyStart
    /\ fields = FieldsStart
    /\ img_array = [c \in Cells |-> <<0, 0, 0>>]
    /\ nan_cast = [seen |-> FALSE, byte |-> 0]
    /\ first = [set |-> FALSE]
    /\ calls = 0
    /\ snow = SnowStart
    /\ canvas = Blank
    /\ icon = IconStart

SnowNext ==
    \/ Snow_CallNoise
    \/ GT_Cell
    \/ GT_NextOctave
    \/ GT_Return
    \/ Snow_Normalize
    \/ Snow_Apply
    \/ Snow_Pebble
    \/ Snow_Grass
    \/ Snow_Save

SnowSpec == SnowInit /\ [][SnowNext]_vars

\* The icon scripts, each from its blank image to the saved file.
IconInit ==
    /\ script \in IconScripts
    /\ perm = 0
    /\ tn = TNIdle
    /\ gt = GTIdle
    /\ sky = SkyStart
    /\ fields = FieldsStart
    /\ img_array = [c \in Cells |-> <<0, 0, 0>>]
    /\ nan_cast = [seen |-> FALSE, byte |-> 0]
    /\ first = [set |-> FALSE]
    /\ calls = 0
    /\ snow = SnowStart
    /\ canvas = Blank
    /\ icon \in {[IconStart EXCEPT !.draw = d] : d \in Draws}

IconNext ==
    \/ Trail_Bag
    \/ Trail_Pieces
    \/ Trail_Seal
    \/ Trail_Crinkles
    \/ Trail_Grain
    \/ Trail_Dither
    \/ Bat_Pixels
    \/ Bat_Grain
    \/ Bat_Dither
    \/ Bino_Bodies
    \/ Bino_Shading
    \/ Bino_Bands
    \/ Bino_Bridge
    \/ Bino_Lenses
    \/ Bino_Eyecups
    \/ Bino_Weathering
    \/ Bino_Grain
    \/ Bino_Dither
    \/ Hazmat_Shapes
    \/ Hazmat_Grain
    \/ Whistle_Body
    \/ Whistle_Lanyard
    \/ Whistle_Grain
    \/ Icon_Save

IconSpec == IconInit /\ [][IconNext]_vars

---------------------------------------------------------------------------
(* The line loop of draw_lanyard, one iteration at a time                  *)

\* The corner of the window of segments the loop is entered with.
MaxCoord == 7

\* The distance between the far end points of the long segments.
GridStride == 9

\* The segments the loop is entered with: the consecutive points of the
\* curve, every pair of points of a window of the canvas, and the segments
\* from the corners of the canvas to the points of a grid.
CurveSegments ==
    {<<LanyardPoint(i - 1), LanyardPoint(i)>> : i \in 1 .. num_points - 1}

WindowSegments ==
    ((0 .. MaxCoord) \X (0 .. MaxCoord)) \X ((0 .. MaxCoord) \X (0 .. MaxCoord))

LongSegments ==
    LET ends == {0, ICON_SIZE - 1}
        grid == {c \in 0 .. ICON_SIZE - 1 :
                     c % GridStride = 0 \/ c = ICON_SIZE - 1}
    IN  (ends \X ends) \X (grid \X grid)

Segments == CurveSegments \cup WindowSegments \cup LongSegments

\* Lines 188-196: the loop is entered for a segment.
Line_Enter ==
    /\ script = "coachs_whistle"
    /\ icon.line.pc = "idle"
    /\ \E seg \in Segments :
           icon' = [icon EXCEPT !.line = LineStart(seg[1], seg[2])]
    /\ UNCHANGED <<script, perm, tn, gt, sky, fields, img_array, nan_cast,
                   first, calls, snow, canvas>>

\* Lines 198-222.
Line_Iterate ==
    /\ script = "coachs_whistle"
    /\ icon.line.pc = "loop"
    /\ icon' = [icon EXCEPT !.line = LineIterate(icon.line)]
    /\ UNCHANGED <<script, perm, tn, gt, sky, fields, img_array, nan_cast,
                   first, calls, snow, canvas>>

LineInit ==
    /\ IconInit
    /\ script = "coachs_whistle"
    /\ icon = IconStart

LineNext == Line_Enter \/ Line_Iterate

LineSpec == LineInit /\ [][LineNext]_vars

---------------------------------------------------------------------------
(* Calls of baseball_bat's distance_to_line                                *)

\* The coordinates of the points the function is called with.
MaxPoint == 3

\* The arguments of the calls: every point and segment of a window, and the
\* calls of line 93, one for each pixel of the icon.
WindowCalls ==
    {<<px, py, x1, y1, x2, y2>> :
        px \in 0 .. MaxPoint, py \in 0 .. MaxPoint,
        x1 \in 0 .. MaxPoint, y1 \in 0 .. MaxPoint,
        x2 \in 0 .. MaxPoint, y2 \in 0 .. MaxPoint}

BatCalls == {<<p[1], p[2], start_x, start_y, end_x, end_y>> : p \in Pixels}

\* Lines 42-67: one call.
Bat_DistanceCall ==
    /\ script = "baseball_bat"
    /\ ~icon.distance.called
    /\ \E a \in WindowCalls \cup BatCalls :
           LET r == distance_to_line(a[1], a[2], a[3], a[4], a[5], a[6])
           IN  icon' = [icon EXCEPT !.distance =
                            [called |-> TRUE, args |-> a,
                             sq |-> r.sq, dist |-> r.dist, t |-> r.t]]
    /\ UNCHANGED <<script, perm, tn, gt, sky, fields, img_array, nan_cast,
                   first, calls, snow, canvas>>

DistanceInit ==
    /\ IconInit
    /\ script = "baseball_bat"
    /\ icon = IconStart

DistanceNext == Bat_DistanceCall

DistanceSpec == DistanceInit /\ [][DistanceNext]_vars

---------------------------------------------------------------------------
(* Closed forms used by the properties *)

RECURSIVE RPow(_, _)
RPow(r, k) == IF k <= 0 THEN RInt(1) ELSE RMul(r, RPow(r, k - 1))

\* scale * lacunarity^i
OctaveFrequency(a, i) == RMul(a.scale, RPow(a.lacunarity, i))

\* sum of persistence^j over j < k
RECURSIVE AmplitudeSum(_, _)
AmplitudeSum(a, k) ==
    IF k <= 0 THEN RInt(0)
    ELSE RAdd(AmplitudeSum(a, k - 1), RPow(a.persistence, k - 1))

\* sum of sample_j * persistence^j over j < k, sample_j taken for cell
\* (a.x, a.y) at frequency scale * lacunarity^j
RECURSIVE WeightedSum(_, _)
WeightedSum(a, k) ==
    IF k <= 0 THEN RInt(0)
    ELSE RAdd(WeightedSum(a, k - 1),
              RMul(Sample(TorusPoint(a.x, a.y, a.size),
                          OctaveFrequency(a, k - 1), a.size),
                   RPow(a.persistence, k - 1)))

\* sum over octaves o < k of the term generate_tileable_noise adds to cell c
RECURSIVE TermSum(_, _, _)
TermSum(a, c, k) ==
    IF k <= 0 THEN RInt(0)
    ELSE RAdd(TermSum(a, c, k - 1),
              OctaveTerm(a.noise_gen, c[1], c[2], a.scale, k - 1))

TNOutcome ==
    IF tn.pc = "raised" THEN <<"raised", tn.err>> ELSE <<"returned", tn.result>>

---------------------------------------------------------------------------
(* Properties *)

\* The arguments toroidal_noise hands to pnoise2 have period a.size on both
\* axes, for every cell and every octave of a call with arguments a.
ToroidalPeriodic(a) ==
    \A c \in Cells, i \in 0 .. a.octaves - 1 :
       LET f    == OctaveFrequency(a, i)
           here == SampleInputs(TorusPoint(c[1], c[2], a.size), f, a.size)
       IN  /\ SampleInputs(TorusPoint(c[1] + a.size, c[2], a.size),
                           f, a.size) = here
           /\ SampleInputs(TorusPoint(c[1], c[2] + a.size, a.size),
                           f, a.size) = here

\* The arguments generate_tileable_noise hands to noise4, and the term it
\* adds, have period SIZE on both axes, for every cell and every octave.
TileablePeriodic(a) ==
    \A c \in Cells, o \in 0 .. a.octaves - 1 :
       LET f    == RInt(Pow2(o))
           here == Noise4Inputs(c[1], c[2], a.scale, f)
       IN  /\ Noise4Inputs(c[1] + SIZE, c[2], a.scale, f) = here
           /\ Noise4Inputs(c[1], c[2] + SIZE, a.scale, f) = here
           /\ OctaveTerm(a.noise_gen, c[1] + SIZE, c[2] + SIZE, a.scale, o)
              = OctaveTerm(a.noise_gen, c[1], c[2], a.scale, o)

\* The calls of toroidal_noise that get past line 31 (size # 0): the direct
\* calls and the calls of generate_dark_sky's three layers.
ToroidalArgs ==
    {a \in {WithCell(cfg, c) : cfg \in ApiConfigs, c \in ApiCells}
            \cup {WithCell(SkyLayers[l], c) : l \in 1 .. 3, c \in Cells} :
        a.size # 0}

\* The calls whose sampling inputs are periodic (computed once).
SeamlessToroidalArgs == {a \in ToroidalArgs : ToroidalPeriodic(a)}
SeamlessTileableArgs == {a \in ApiGTConfigs : TileablePeriodic(a)}

\* C1 (seamlessness): in both generators the arguments handed to the noise
\* primitive for cell (x + size, y) and for cell (x, y + size) are those
\* handed to it for cell (x, y), at every octave, so the field has period
\* size on both axes.  The point a running call of toroidal_noise computed
\* is the point of its cell shifted by one period.
C1_Seamless ==
    /\ tn.pc \in {"loop", "done"} =>
          LET a == tn.args
          IN  /\ tn.p = TorusPoint(a.x + a.size, a.y, a.size)
              /\ tn.p = TorusPoint(a.x, a.y + a.size, a.size)
              /\ a \in SeamlessToroidalArgs
    /\ gt.pc \in {"loop", "done"} => gt.args \in SeamlessTileableArgs

\* C1 witness: after a completed generate_tileable_noise call of two or
\* more octaves, a toroidal_noise call for a cell off the origin has
\* sampled several octaves and returned.
C1_Witness ==
    /\ first.set
    /\ first.fn = "generate_tileable_noise"
    /\ first.args.octaves >= 2
    /\ tn.pc = "done"
    /\ tn.args.x = 1
    /\ tn.args.y = SIZE - 1
    /\ tn.samples >= 2

\* C2 (determinism): a call with the arguments of the first completed call
\* ends like the first call: the same value (or field) returned, or
\* the same error raised, whatever was called in between and in whatever
\* order the cell loop ran.
C2_Deterministic ==
    first.set =>
       /\ (/\ tn.pc \in {"done", "raised"}
           /\ first.fn = "toroidal_noise"
           /\ tn.args = first.args) => TNOutcome = first.outcome
       /\ (/\ gt.pc = "done"
           /\ first.fn = "generate_tileable_noise"
           /\ gt.args = first.args) => <<"returned", gt.noise>> = first.outcome

\* C2 witness: the third direct call repeats the arguments of the first and
\* has returned a value that is not zero.
C2_Witness ==
    /\ calls = 3
    /\ first.set
    /\ first.fn = "toroidal_noise"
    /\ tn.pc = "done"
    /\ tn.args = first.args
    /\ tn.samples >= 2
    /\ tn.result.n # 0

\* The fields of generate_dark_sky that have been min-max normalized and not
\* been changed since.
NormalizedFields ==
    IF script # "dark_sky" \/ sky.pc = "start" THEN {}
    ELSE IF sky.pc \in {"fill", "call"}
         THEN {fields[LayerNames[k]] : k \in 1 .. sky.layer - 1}
    ELSE {fields[LayerNames[k]] : k \in 1 .. 3}
         \cup (IF sky.pc = "power" THEN {fields.combined} ELSE {})

\* C3 (range in dark_sky): after the min-max normalization every value of
\* base_noise, detail_noise, turbulence and combined is a number in [0, 1],
\* the smallest being 0 and the largest 1, whatever the raw field was.
C3_NormalizedRange ==
    \A f \in NormalizedFields :
       /\ \A c \in Cells : /\ IsFinite(f[c])
                           /\ RLe(RInt(0), f[c])
                           /\ RLe(f[c], RInt(1))
       /\ \E c \in Cells : f[c] = RInt(0)
       /\ \E c \in Cells : f[c] = RInt(1)

\* C4 (amplitude normalization): with every noise sample in [-1, 1], the
\* value toroidal_noise returns and every cell of the field
\* generate_tileable_noise returns lie in [-1, 1], for every octave count
\* >= 1.
C4_AmplitudeNormalized ==
    /\ (tn.pc = "done" /\ tn.args.octaves >= 1) =>
          /\ RLe(RInt(-1), tn.result)
          /\ RLe(tn.result, RInt(1))
    /\ (gt.pc = "done" /\ gt.args.octaves >= 1 /\ gt.args.scale.n > 0) =>
          \A c \in Cells : /\ RLe(RInt(-1), gt.noise[c])
                           /\ RLe(gt.noise[c], RInt(1))

\* C5 (octave count 0 is rejected): a call of either generator with
\* octaves = 0 ends with an error before a noise sample is taken and
\* returns nothing.
C5_ZeroOctavesRejected ==
    /\ (tn.pc \in {"done", "raised"} /\ tn.args.octaves = 0) =>
          (tn.pc = "raised" /\ tn.samples = 0)
    /\ gt.pc = "done" => gt.args.octaves # 0

\* C6 (parameter validation): a call with scale <= 0 or size <= 0 is
\* rejected before any noise sample is taken: it never enters the octave
\* loop and never returns.
C6_ParametersValidated ==
    /\ tn.pc \in {"loop", "done"} =>
          (tn.args.scale.n > 0 /\ tn.args.size > 0)
    /\ gt.pc \in {"loop", "done"} => gt.args.scale.n > 0

\* What toroidal_noise returns for arguments a with octaves >= 1.
ClosedToroidal(a) ==
    NpDiv(WeightedSum(a, a.octaves), AmplitudeSum(a, a.octaves))

\* C7 (octave accumulation in toroidal_noise): before iteration i the
\* frequency is scale * lacunarity^i and the weight persistence^i; value and
\* max_value hold the weighted samples and the weights of the octaves
\* below i; the call returns (sum of sample_i * persistence^i) / (sum of
\* persistence^i) over all octaves.
C7_OctaveAccumulation ==
    tn.pc \in {"loop", "done"} =>
       LET a == tn.args
       IN  /\ tn.frequency = OctaveFrequency(a, tn.i)
           /\ tn.amplitude = RPow(a.persistence, tn.i)
           /\ tn.max_value = AmplitudeSum(a, tn.i)
           /\ tn.value = WeightedSum(a, tn.i)
           /\ tn.samples = tn.i
           /\ tn.pc = "done" => /\ tn.i = a.octaves
                                /\ tn.result = ClosedToroidal(a)

\* C7 witness: the detail layer's call (4 octaves, persistence 0.6) has
\* returned a value that is not zero.
C7_Witness ==
    /\ tn.pc = "done"
    /\ tn.args.octaves = 4
    /\ tn.args.persistence = Rat(3, 5)
    /\ tn.i = 4
    /\ tn.result.n # 0

\* <<a, k, c, v>>: after k octaves of generate_tileable_noise(a) cell c
\* holds v (computed once).
TileableCellValues ==
    {<<a, k, c, TermSum(a, c, k)>> :
        a \in ApiGTConfigs, k \in 0 .. MaxOctaves + 1, c \in Cells}

\* C8 (cell independence): whatever order the cell loop takes, a cell that
\* was visited holds the value computed from its own coordinates and the
\* shared parameters, and a cell not yet visited is untouched.
C8_CellIndependence ==
    /\ gt.pc \in {"loop", "done"} =>
          \A c \in Cells :
             <<gt.args, gt.octave + (IF c \in gt.filled THEN 1 ELSE 0), c,
               gt.noise[c]>> \in TileableCellValues
    /\ (script = "dark_sky" /\ sky.pc \in {"fill", "call"}) =>
          \A c \in Cells :
             fields[LayerNames[sky.layer]][c]
                = IF c \in sky.filled
                  THEN ClosedToroidal(WithCell(SkyLayers[sky.layer], c))
                  ELSE RInt(0)

\* C8 witness: with the rows split between two workers, the second octave
\* of generate_tileable_noise has reached a cell of row 1 before any cell
\* of row 0.
C8_Witness ==
    /\ gt.pc = "loop"
    /\ gt.sched = "workers"
    /\ gt.octave = 1
    /\ <<0, 1>> \in gt.filled
    /\ <<0, 0>> \notin gt.filled
    /\ gt.noise[<<0, 1>>] # gt.noise[<<0, 0>>]

\* C9 (no-op tail): with persistence = 0 and octaves >= 1 toroidal_noise
\* raises nothing and returns exactly the sample of octave 0; the later
\* octaves add weight 0 to value and to max_value.
C9_NoOpTail ==
    (/\ tn.pc \in {"done", "raised"}
     /\ tn.args.size # 0
     /\ tn.args.persistence = RInt(0)
     /\ tn.args.octaves >= 1) =>
       /\ tn.pc = "done"
       /\ tn.max_value = RInt(1)
       /\ tn.result = Sample(TorusPoint(tn.args.x, tn.args.y, tn.args.size),
                             tn.args.scale, tn.args.size)

\* C9 witness: a call with persistence 0 and 3 octaves has returned a value
\* that is not zero.
C9_Witness ==
    /\ tn.pc = "done"
    /\ tn.args.persistence = RInt(0)
    /\ tn.args.octaves = 3
    /\ tn.samples = 3
    /\ tn.result.n # 0

\* The breakpoints of the colour ramp and their colours.
RampBreaks == <<RInt(0), Rat(1, 5), Rat(1, 2), Rat(3, 4), RInt(1)>>
RampColours == <<DARKEST, DARK_GRAY, MID_DARK, CLOUD_EDGE, LIGHTEST>>

AsFloats(colour) == [k \in 1 .. 3 |-> RInt(colour[k])]

\* The colour on the straight line between the breakpoints around value.
Interpolated(value) ==
    LET j == CHOOSE k \in 1 .. 4 :
                /\ RLe(RampBreaks[k], value)
                /\ RLt(value, RampBreaks[k + 1]) \/ k = 4
        t == NpDiv(RSub(value, RampBreaks[j]),
                   RSub(RampBreaks[j + 1], RampBreaks[j]))
    IN  [k \in 1 .. 3 |->
            RAdd(RInt(RampColours[j][k]),
                 RMul(RInt(RampColours[j + 1][k] - RampColours[j][k]), t))]

\* Values at which the ramp is compared with the straight lines.
RampSteps == 20

\* The ramp is the straight lines between its breakpoints, and adjacent
\* segments meet at 0.2, 0.5 and 0.75 (computed once).
RampPiecewiseLinear ==
    /\ PaletteColor(RInt(0)) = AsFloats(DARKEST)
    /\ PaletteColor(RInt(1)) = AsFloats(LIGHTEST)
    /\ RampDarkest(Rat(1, 5)) = AsFloats(DARK_GRAY)
    /\ RampDarkGray(Rat(1, 5)) = AsFloats(DARK_GRAY)
    /\ RampDarkGray(Rat(1, 2)) = AsFloats(MID_DARK)
    /\ RampMidDark(Rat(1, 2)) = AsFloats(MID_DARK)
    /\ RampMidDark(Rat(3, 4)) = AsFloats(CLOUD_EDGE)
    /\ RampCloudEdge(Rat(3, 4)) = AsFloats(CLOUD_EDGE)
    /\ \A k \in 0 .. RampSteps :
          PaletteColor(Rat(k, RampSteps)) = Interpolated(Rat(k, RampSteps))

\* C10 (colour ramp continuity in dark_sky): the palette mapping is
\* piecewise linear over 0, 0.2, 0.5, 0.75, 1; 0 maps to DARKEST and 1 to
\* LIGHTEST; at 0.2, 0.5 and 0.75 the segment below and the segment above
\* give the same colour (DARK_GRAY, MID_DARK, CLOUD_EDGE); and every pixel
\* painted from a finite value holds the truncated colour of the ramp.
C10_RampContinuous ==
    /\ RampPiecewiseLinear
    /\ (script = "dark_sky" /\ sky.pc \in {"palette", "saved"}) =>
          \A c \in sky.filled :
             IsFinite(fields.combined[c]) =>
                img_array[c] = [k \in 1 .. 3 |->
                                  RTrunc(Interpolated(fields.combined[c])[k])]

\* C10 witness: the image is complete and holds a DARKEST pixel, a LIGHTEST
\* pixel and a pixel strictly between them.
C10_Witness ==
    /\ script = "dark_sky"
    /\ sky.pc = "saved"
    /\ \E c \in Cells : img_array[c] = DARKEST
    /\ \E c \in Cells : img_array[c] = LIGHTEST
    /\ \E c \in Cells : img_array[c] \notin {DARKEST, LIGHTEST}

\* 0 <= v <= 1 (false for NaN).
InUnit(v) == RLe(RInt(0), v) /\ RLe(v, RInt(1))

\* Over [0, 1] every channel of the ramp lies between the channels of
\* DARKEST and LIGHTEST and does not fall as the value rises (computed
\* once).
RampMonotoneBounded ==
    \A k \in 0 .. RampSteps, ch \in 1 .. 3 :
       LET here == PaletteColor(Rat(k, RampSteps))[ch]
       IN  /\ RLe(RInt(DARKEST[ch]), here)
           /\ RLe(here, RInt(LIGHTEST[ch]))
           /\ k > 0 => RLe(PaletteColor(Rat(k - 1, RampSteps))[ch], here)

\* The palette loop of generate_dark_sky is running or has finished.
PaletteStage == script = "dark_sky" /\ sky.pc \in {"palette", "saved"}

\* C11 (colour ramp bounds in dark_sky): every value handed to
\* the palette mapping lies in [0, 1], and every painted pixel has each
\* channel between the channels of DARKEST and LIGHTEST.
C11_RampBoundsAlways ==
    PaletteStage =>
       /\ \A c \in Cells : InUnit(fields.combined[c])
       /\ \A c \in sky.filled, ch \in 1 .. 3 :
             /\ DARKEST[ch] <= img_array[c][ch]
             /\ img_array[c][ch] <= LIGHTEST[ch]

\* The part of C11 that holds: every value handed to the palette mapping
\* that is a number (no layer was constant) lies in [0, 1];
\* for such values every channel of the ramp and of the painted pixel lies
\* between the channels of DARKEST and LIGHTEST and does not fall as the
\* value rises.
RampBoundsOfNumbers ==
    /\ RampMonotoneBounded
    /\ PaletteStage =>
          /\ \A c \in Cells :
                IsFinite(fields.combined[c]) => InUnit(fields.combined[c])
          /\ \A c \in sky.filled, ch \in 1 .. 3 :
                IsFinite(fields.combined[c]) =>
                   /\ DARKEST[ch] <= img_array[c][ch]
                   /\ img_array[c][ch] <= LIGHTEST[ch]
                   /\ \A d \in sky.filled :
                         (/\ IsFinite(fields.combined[d])
                          /\ RLe(fields.combined[c], fields.combined[d])) =>
                            img_array[c][ch] <= img_array[d][ch]

\* The palette loop has painted two pixels from different numbers, one of
\* them strictly inside (0, 1).
RampBoundsReached ==
    /\ PaletteStage
    /\ \E c, d \in sky.filled :
          /\ IsFinite(fields.combined[c])
          /\ IsFinite(fields.combined[d])
          /\ RLt(RInt(0), fields.combined[c])
          /\ RLt(fields.combined[c], fields.combined[d])
          /\ img_array[c] # img_array[d]

\* Layer k of snow_dirt's main has been through its `(noise + 1) / 2`.
SnowNormalized(k) ==
    /\ script = "snow_dirt"
    /\ \/ snow.layer > k
       \/ snow.layer = k /\ snow.pc \notin {"noise", "wait"}

\* C12 (range in snow_dirt): every noise4 sample lying in [-1, 1], after
\* the step (noise + 1) / 2 every value of dirt_variation (octaves = 3),
\* snow_layer (octaves = 2) and detail (octaves = 2) lies in [0, 1].
C12_SnowRange ==
    \A k \in 1 .. 3 :
       SnowNormalized(k) =>
          \A c \in Cells : InUnit(snow[SnowFieldNames[k]][c])

\* The lattice points of the disc of a pebble of the given radius.
Disc(radius) ==
    {o \in (-radius .. radius) \X (-radius .. radius) :
        o[1] * o[1] + o[2] * o[2] <= radius * radius}

\* p is a valid index and differs from q by a multiple of SIZE.
WrapsTo(q, p) ==
    /\ p \in 0 .. SIZE - 1
    /\ \E k \in -8 .. 8 : p = q + k * SIZE

\* For every centre and every offset the strokes can generate the wrapped
\* pixel is in range and congruent to centre + offset (computed once).
WrapAlwaysValid ==
    \A c \in Cells, ox \in -7 .. 7, oy \in -7 .. 7 :
       /\ WrapsTo(c[1] + ox, WrapPixel(c[1], c[2], <<ox, oy>>)[1])
       /\ WrapsTo(c[2] + oy, WrapPixel(c[1], c[2], <<ox, oy>>)[2])

---------------------------------------------------------------------------
(* The item icons *)

\* The script has written its file: the image is the final texture.
Saved == Len(icon.done) > 0 /\ icon.done[Len(icon.done)] = "save"

Opaque(p) == canvas[p][4] > 0

\* C14 (trail-mix bag silhouette): in the final texture of trail_mix every
\* non-transparent pixel (x, y) lies in a row of the bag and within that
\* row's span current_left(y) <= x < current_right(y) of draw_bag_shape; the
\* seal, the crinkles and the pieces make no pixel outside the outline
\* non-transparent.
C14_BagSilhouette ==
    (script = "trail_mix" /\ Saved) =>
        \A p \in Pixels :
            Opaque(p) =>
                /\ bag_top <= p[2] /\ p[2] < bag_bottom
                /\ current_left(p[2]) <= p[1] /\ p[1] < current_right(p[2])

\* Not on the first or last row or column of the canvas.
OffTheEdges(x, y) ==
    /\ 1 <= x /\ x <= ICON_SIZE - 2
    /\ 1 <= y /\ y <= ICON_SIZE - 2

\* The pixel positions of the canvas and of a margin of 8 around it (the
\* bat is at most 7 wide on each side of its axis).
Plane == (-8 .. ICON_SIZE + 7) \X (-8 .. ICON_SIZE + 7)

\* Every position that passes the test dist <= width of line 108, on the
\* canvas or beyond it, is off the edges of the canvas.
BatFits == \A q \in Plane : InsideBat(q[1], q[2]) => OffTheEdges(q[1], q[2])

BatPainted == script = "baseball_bat" /\ icon.step > 1

\* C19 (baseball bat is not clipped): with the axis from (12, SIZE - 12) to
\* (SIZE - 14, 14) and widths 3 to 7, every position with dist <= width lies
\* inside the canvas and not on row or column 0 or SIZE - 1; once the bat is
\* painted, every non-transparent pixel is off the edges and every edge
\* pixel is transparent.
C19_BatNotClipped ==
    /\ BatFits
    /\ BatPainted =>
           \A p \in Pixels :
               /\ Opaque(p) => OffTheEdges(p[1], p[2])
               /\ ~OffTheEdges(p[1], p[2]) => canvas[p] = Transparent

\* C19 witness: the bat is painted, both ends of its axis included, and
\* reaches within one pixel of the barrel's radius of the axis end.
C19_Witness ==
    /\ BatPainted
    /\ Opaque(<<start_x, start_y>>)
    /\ Opaque(<<end_x, end_y>>)
    /\ Opaque(<<end_x + 7, end_y>>)
    /\ Opaque(<<start_x - 3, start_y>>)

\* The pixel has the grey of TAPE_COLOR (equal channels), not a wood tone.
TapeColoured(p) ==
    /\ Opaque(p)
    /\ canvas[p][1] = canvas[p][2]
    /\ canvas[p][2] = canvas[p][3]

\* The position of the pixel's closest point along the bat.
BatT(p) == BatDistance(p[1], p[2]).t

\* The index of the twelfth of [0, 0.25) that holds t.
Segment(t) == RFloor(RMul(t, RInt(48)))

\* The pixels of the bat in the tape zone.
TapeZonePixels == {p \in Pixels : Opaque(p) /\ RLt(BatT(p), Rat(1, 4))}

\* C20 (bat tape grip): a pixel of the bat is tape-coloured exactly when
\* its position t is below 0.25 and the index of its segment (of 12 equal
\* segments of [0, 0.25)) is 0 or 1 modulo 3; the tape pixels fill the
\* segments 0, 1, 3, 4, 6, 7, 9, 10 (4 bands of 2 segments) and the other
\* pixels of the zone the segments 2, 5, 8, 11 (a gap of 1 segment after
\* each band); no pixel with t >= 0.25 is tape-coloured.
C20_TapeGrip ==
    BatPainted =>
        /\ \A p \in Pixels :
               Opaque(p) =>
                   (TapeColoured(p) <=>
                       /\ RLt(BatT(p), Rat(1, 4))
                       /\ Segment(BatT(p)) % 3 \in {0, 1})
        /\ {Segment(BatT(p)) : p \in {q \in TapeZonePixels : TapeColoured(q)}}
               = {0, 1, 3, 4, 6, 7, 9, 10}
        /\ {Segment(BatT(p)) : p \in {q \in TapeZonePixels : ~TapeColoured(q)}}
               = {2, 5, 8, 11}

\* C20 witness: the painted bat has tape pixels, pixels of the gaps between
\* the bands, and wood beyond the tape zone, also after grain and dither.
C20_Witness ==
    /\ BatPainted
    /\ Saved
    /\ \E p \in TapeZonePixels : TapeColoured(p)
    /\ \E p \in TapeZonePixels : ~TapeColoured(p)
    /\ \E p \in Pixels : Opaque(p) /\ ~RLt(BatT(p), Rat(1, 4))

\* The pixel satisfies the ellipse test of the barrel centred at (cx, cy).
InBarrel(p, cx, cy) ==
    InEllipse(p[1], p[2], cx, cy, barrel_radius, barrel_length \div 2,
              QuarterTurn)

Rgb(p) == <<canvas[p][1], canvas[p][2], canvas[p][3]>>

\* generate_binoculars has run its shading loop and nothing after it.
BarrelsShaded ==
    script = "binoculars" /\ icon.done = <<"barrel_bodies", "barrel_shading">>

\* C17 (binoculars barrel shading): after the shading pass a non-transparent
\* pixel of the left barrel with x < left_cx - 4 is OLIVE_DARK and with
\* x > left_cx + 4 is OLIVE_LIGHT, a non-transparent pixel of the right
\* barrel with x < right_cx - 4 is OLIVE_DARK and with x > right_cx + 4 is
\* OLIVE_LIGHT, and each of the four branches of the if / elif chain is
\* taken by some pixel.
C17_BarrelShading ==
    BarrelsShaded =>
        /\ \A p \in Pixels :
               Opaque(p) =>
                   /\ InBarrel(p, left_cx, left_cy) /\ p[1] < left_cx - 4
                          => Rgb(p) = OLIVE_DARK
                   /\ InBarrel(p, left_cx, left_cy) /\ p[1] > left_cx + 4
                          => Rgb(p) = OLIVE_LIGHT
                   /\ InBarrel(p, right_cx, right_cy) /\ p[1] < right_cx - 4
                          => Rgb(p) = OLIVE_DARK
                   /\ InBarrel(p, right_cx, right_cy) /\ p[1] > right_cx + 4
                          => Rgb(p) = OLIVE_LIGHT
        /\ \A branch \in 1 .. 4 :
               \E p \in Pixels : ShadeBranch(canvas, p) = branch

\* What the shading loop does: every pixel up to column left_cx + 4 is dark,
\* every pixel beyond it is light, and the last branch is never taken.
ShadingAsCoded ==
    BarrelsShaded =>
        /\ \A p \in Pixels :
               Opaque(p) =>
                   /\ p[1] <= left_cx + 4 => Rgb(p) = OLIVE_DARK
                   /\ p[1] > left_cx + 4 => Rgb(p) = OLIVE_LIGHT
        /\ {ShadeBranch(canvas, p) : p \in Pixels} = {0, 1, 2, 3}

\* generate_binoculars has drawn the two barrel bodies and nothing else.
BodiesDrawn == script = "binoculars" /\ icon.done = <<"barrel_bodies">>

\* C18 (draw_ellipse_filled paints the whole rotated ellipse): after the two
\* calls with angle pi/2, rx = 15 and ry = 21, every pixel of the canvas
\* whose rotated coordinates satisfy (rx_point/rx)^2 + (ry_point/ry)^2 <= 1
\* for one of the two centres has the colour, and every other pixel is
\* unchanged (transparent).
C18_WholeEllipse ==
    BodiesDrawn =>
        \A p \in Pixels :
            canvas[p] = IF \/ InBarrel(p, left_cx, left_cy)
                           \/ InBarrel(p, right_cx, right_cy)
                        THEN Solid(OLIVE_MED) ELSE Transparent

\* What the calls do paint: the part of each ellipse inside its scan window.
EllipseWithinWindow ==
    BodiesDrawn =>
        \A p \in Pixels :
            canvas[p] =
                IF \E c \in {<<left_cx, left_cy>>, <<right_cx, right_cy>>} :
                       /\ InBarrel(p, c[1], c[2])
                       /\ EllipseWindow(p[1], p[2], c[1], c[2],
                              barrel_radius, barrel_length \div 2)
                THEN Solid(OLIVE_MED) ELSE Transparent

\* A pixel of the left ellipse that the scan window leaves out.
EllipseCutOff ==
    /\ BodiesDrawn
    /\ InBarrel(<<left_cx - 19, left_cy>>, left_cx, left_cy)
    /\ canvas[<<left_cx - 19, left_cy>>] = Transparent

\* The kinds of passes of the icon scripts.
GrainPasses == {"add_psx_grain", "add_grain"}
DitherPasses == {"apply_dithering", "checkerboard_dither", "add_dither"}
PostPasses == GrainPasses \cup DitherPasses

\* The scripts that dither.
DitheringScripts == {"baseball_bat", "binoculars", "trail_mix"}

\* C15 (post-process ordering): in every icon script no shape painting pass
\* runs after a grain or dither pass, no grain pass runs after a dither pass,
\* nothing runs after the save, and when the image is saved the grain pass
\* (and in baseball_bat, binoculars and trail_mix the dither pass) has run.
C15_PostProcessOrder ==
    script \in IconScripts =>
        /\ \A i \in 1 .. Len(icon.done) : \A j \in i + 1 .. Len(icon.done) :
               /\ icon.done[i] \in PostPasses
                      => icon.done[j] \in PostPasses \cup {"save"}
               /\ icon.done[i] \in DitherPasses
                      => icon.done[j] \notin GrainPasses
               /\ icon.done[i] # "save"
        /\ Saved =>
               /\ \E i \in 1 .. Len(icon.done) : icon.done[i] \in GrainPasses
               /\ script \in DitheringScripts =>
                      \E i \in 1 .. Len(icon.done) :
                          icon.done[i] \in DitherPasses

\* C15 witness: a script has painted, then run its grain pass, then its
\* dither pass, then saved.
C15_Witness ==
    /\ script \in DitheringScripts
    /\ Saved
    /\ \E i \in 1 .. Len(icon.done) :
           /\ icon.done[i] \notin PostPasses
           /\ \E j \in i + 1 .. Len(icon.done) :
                  /\ icon.done[j] \in GrainPasses
                  /\ \E k \in j + 1 .. Len(icon.done) :
                         icon.done[k] \in DitherPasses

\* The grain and dither passes that test alpha > 0 before they write.
GuardedPasses ==
    {<<"baseball_bat", "add_psx_grain">>,
     <<"baseball_bat", "checkerboard_dither">>,
     <<"hazmat_suit", "add_grain">>,
     <<"trail_mix", "add_psx_grain">>,
     <<"trail_mix", "apply_dithering">>,
     <<"binoculars", "add_dither">>}

\* The step is a run of the pass called name.
RunOf(name) == icon'.done = Append(icon.done, name)

\* C16 (post-process frame condition): a run of baseball_bat's add_psx_grain
\* or checkerboard dither, hazmat_suit's add_grain, trail_mix's add_psx_grain
\* or apply_dithering, or binoculars' add_dither changes the alpha of no
\* pixel and leaves every pixel with alpha 0 as it was.
C16_PostProcessFrame ==
    [][\A pass \in GuardedPasses :
           (script = pass[1] /\ RunOf(pass[2])) =>
               \A p \in Pixels :
                   /\ canvas'[p][4] = canvas[p][4]
                   /\ canvas[p][4] = 0 => canvas'[p] = canvas[p]]_vars

\* The pass that ran last.
LastPass == IF icon.done = <<>> THEN "" ELSE icon.done[Len(icon.done)]

\* C16 witness: one of these passes has just run on an image with
\* transparent and non-transparent pixels and has changed some of them.
C16_Witness ==
    /\ <<script, LastPass>> \in GuardedPasses
    /\ icon.touched > 0
    /\ \E p \in Pixels : canvas[p] = Transparent
    /\ \E p \in Pixels : Opaque(p)

\* The grain passes without the test (coachs_whistle's add_psx_grain,
\* binoculars' add_grain) give colour to a pixel of alpha 0.
TransparentRecoloured ==
    /\ script \in {"coachs_whistle", "binoculars"}
    /\ LastPass \in GrainPasses
    /\ \E p \in Pixels : canvas[p][4] = 0 /\ canvas[p] # Transparent

---------------------------------------------------------------------------
(* The line loop of the lanyard and the distance to a segment *)

\* The larger of the two extents of the segment the loop works on.
LineExtent ==
    Max2(Abs(icon.line.to[1] - icon.line.from[1]),
         Abs(icon.line.to[2] - icon.line.from[2]))

\* C21 (lanyard line loop reaches its endpoint): for a segment between two
\* points of the canvas the while loop of draw_lanyard never leaves through
\* the max_steps cap, never counts more than max(|x2-x1|, |y2-y1|) steps,
\* has arrived at (x2, y2) when that many steps are counted, and is at
\* (x2, y2) when it has left through the break.
C21_LineReachesEnd ==
    icon.line.pc # "idle" =>
        /\ icon.line.pc # "cap"
        /\ icon.line.steps <= LineExtent
        /\ icon.line.steps = LineExtent
               => icon.line.x = icon.line.to[1] /\ icon.line.y = icon.line.to[2]
        /\ icon.line.pc = "break"
               => icon.line.x = icon.line.to[1] /\ icon.line.y = icon.line.to[2]

\* C21 witness: the loop has left through the break for two consecutive
\* points of the curve that differ in x and in y, after as many steps as the
\* larger extent.
C21_Witness ==
    /\ icon.line.pc = "break"
    /\ <<icon.line.from, icon.line.to>> \in CurveSegments
    /\ icon.line.from[1] # icon.line.to[1]
    /\ icon.line.from[2] # icon.line.to[2]
    /\ icon.line.steps = LineExtent

\* A segment from corner to corner of the canvas is walked in 63 steps.
LongLineWalked ==
    /\ icon.line.pc = "break"
    /\ icon.line.steps = ICON_SIZE - 1

\* The positions draw_lanyard plots for a segment are the ones the loop has
\* been at when it leaves.
WalkAgrees ==
    icon.line.pc = "break" =>
        LET walk == LineWalk(icon.line.from, icon.line.to)
        IN  /\ Len(walk) = icon.line.steps + 1
            /\ walk[Len(walk)] = icon.line.to

\* The number of parts a segment is cut into to compare distances.
NearRes == 4

\* The call made: the point, the ends and the direction of the segment, and
\* the point of the segment at position s.
CallPoint == <<icon.distance.args[1], icon.distance.args[2]>>
CallFrom == <<icon.distance.args[3], icon.distance.args[4]>>
CallTo == <<icon.distance.args[5], icon.distance.args[6]>>
CallDir == <<CallTo[1] - CallFrom[1], CallTo[2] - CallFrom[2]>>
OnSegment(s) ==
    <<RAdd(RInt(CallFrom[1]), RMul(s, RInt(CallDir[1]))),
      RAdd(RInt(CallFrom[2]), RMul(s, RInt(CallDir[2])))>>

\* The square of the distance from the point of the call to q, and the
\* scalar product of (point - c) and (q - c).
SqTo(q) ==
    LET ex == RSub(RInt(CallPoint[1]), q[1])
        ey == RSub(RInt(CallPoint[2]), q[2])
    IN  RAdd(RMul(ex, ex), RMul(ey, ey))
Towards(c, q) ==
    RAdd(RMul(RSub(RInt(CallPoint[1]), c[1]), RSub(q[1], c[1])),
         RMul(RSub(RInt(CallPoint[2]), c[2]), RSub(q[2], c[2])))

\* The projection of the point on the line falls before the start of the
\* segment, or beyond its end.
ProjectsBefore ==
    (CallPoint[1] - CallFrom[1]) * CallDir[1]
        + (CallPoint[2] - CallFrom[2]) * CallDir[2] < 0
ProjectsBeyond ==
    (CallPoint[1] - CallTo[1]) * CallDir[1]
        + (CallPoint[2] - CallTo[2]) * CallDir[2] > 0

\* dist is the square root of sq, to the resolution of MathSqrt.
DistIsRootOfSq ==
    LET m == icon.distance.dist.n * (SqrtRes \div icon.distance.dist.d)
        f == ScaleFloor(icon.distance.sq, SqrtRes * SqrtRes)
    IN  /\ SqrtRes % icon.distance.dist.d = 0
        /\ m >= 0 /\ m * m <= f /\ f < (m + 1) * (m + 1)

\* C22 (distance to a segment): distance_to_line returns numbers (nothing
\* is divided by zero), a t within [0, 1], and the distance from the point to
\* the point of the segment at t, which is the nearest of the segment: no
\* point of the segment is nearer (none of the sampled ones, and the
\* segment lies on the far side of the closest point), it is the start when
\* the projection falls before it and the end when it falls beyond; for a
\* segment of length zero it returns the distance to its point and t = 0.
C22_DistanceToSegment ==
    icon.distance.called =>
        LET r == icon.distance
            c == OnSegment(r.t)
        IN  /\ IsFinite(r.t) /\ IsFinite(r.sq) /\ IsFinite(r.dist)
            /\ RLe(RInt(0), r.t) /\ RLe(r.t, RInt(1))
            /\ r.sq = SqTo(c)
            /\ DistIsRootOfSq
            /\ \A k \in 0 .. NearRes : RLe(r.sq, SqTo(OnSegment(Rat(k, NearRes))))
            /\ RLe(Towards(c, OnSegment(RInt(0))), RInt(0))
            /\ RLe(Towards(c, OnSegment(RInt(1))), RInt(0))
            /\ ProjectsBefore => r.t = RInt(0) /\ r.sq = SqTo(OnSegment(RInt(0)))
            /\ ProjectsBeyond => r.t = RInt(1) /\ r.sq = SqTo(OnSegment(RInt(1)))
            /\ CallFrom = CallTo
                   => r.t = RInt(0) /\ r.sq = SqTo(<<RInt(CallFrom[1]),
                                                      RInt(CallFrom[2])>>)

\* C22 witness: a call whose projection falls beyond the end of the bat's
\* segment, at a distance that is not zero.
C22_Witness ==
    /\ icon.distance.called
    /\ CallFrom = <<start_x, start_y>> /\ CallTo = <<end_x, end_y>>
    /\ ProjectsBeyond
    /\ icon.distance.t = RInt(1)
    /\ RLt(RInt(0), icon.distance.dist)

\* A call with a segment of length zero and a point off it; a call whose
\* closest point lies strictly inside the segment; a call whose projection
\* falls before the start.
ZeroLengthCalled ==
    /\ icon.distance.called
    /\ CallFrom = CallTo /\ CallPoint # CallFrom
    /\ RLt(RInt(0), icon.distance.dist)
InsideCalled ==
    /\ icon.distance.called
    /\ RLt(RInt(0), icon.distance.t) /\ RLt(icon.distance.t, RInt(1))
    /\ RLt(RInt(0), icon.distance.sq)
BeforeCalled ==
    /\ icon.distance.called
    /\ ProjectsBefore
    /\ RLt(RInt(0), icon.distance.sq)

===========================================================================
